---- MODULE Spec2Model ----
(***************************************************************************)
(* iptables-log-tui: the Bubble Tea model (internal/model/model.go), the   *)
(* tailer worker (internal/tailer/tailer.go) and the forwarding goroutine  *)
(* of main.go, as state machines.                                          *)
(*                                                                         *)
(* Strings that the code inspects (prefix, addresses, protocol, search     *)
(* text) are sequences of one-character strings, so that ToUpper, ToLower  *)
(* and Contains are computed and not assumed.                              *)
(*                                                                         *)
(* Spec      the event loop: Update on every message kind.                 *)
(* LookupSpec  the whois lookups: the part of the event loop that opens   *)
(*           and closes the overlay and receives the results, with the     *)
(*           result of a running lookup delivered in the end.              *)
(* FnSpec    the functions without side effects, each applied to arguments *)
(*           drawn from a set of cases.                                    *)
(* TailSpec  the tailer worker, the watched file, the two channels, the    *)
(*           forwarding goroutine and the event loop's receipt of its      *)
(*           messages.                                                     *)
(* TailFairSpec  TailSpec with the worker goroutine scheduled and the done *)
(*           case of its selects chosen in the end.                        *)
(***************************************************************************)
EXTENDS Integers, Sequences, FiniteSets, TLC

(***************************************************************************)
(* Bounds of the model.                                                    *)
(***************************************************************************)
\* NewLineMsg messages the event loop receives, per run of Spec.
MaxAll == 3
\* Bytes the log writer appends to the watched file, per run of TailSpec.
MaxWrites == 2
\* Truncations, replacements and removals of the watched file, per run.
MaxRotations == 1
\* Capacity of the Lines channel in the model (the program's is 256).
LinesCap == 2
\* Entries of the collections FnSpec applies applyFilters to.
MaxFnAll == 2

(***************************************************************************)
(* Strings.                                                                *)
(***************************************************************************)
Lowers == <<"a", "b", "c", "d", "e", "f", "i", "j", "k", "l", "m", "n", "o", "p",
            "r", "t", "u", "v", "w">>
Uppers == <<"A", "B", "C", "D", "E", "F", "I", "J", "K", "L", "M", "N", "O", "P",
            "R", "T", "U", "V", "W">>

\* strings.ToUpper, strings.ToLower on one character.
UpperCh(c) ==
  IF \E i \in 1..Len(Lowers) : Lowers[i] = c
    THEN Uppers[CHOOSE i \in 1..Len(Lowers) : Lowers[i] = c]
    ELSE c

LowerCh(c) ==
  IF \E i \in 1..Len(Uppers) : Uppers[i] = c
    THEN Lowers[CHOOSE i \in 1..Len(Uppers) : Uppers[i] = c]
    ELSE c

ToUpper(s) == [i \in 1..Len(s) |-> UpperCh(s[i])]
ToLower(s) == [i \in 1..Len(s) |-> LowerCh(s[i])]

\* strings.Contains.
Contains(s, sub) ==
  \E i \in 0..(Len(s) - Len(sub)) :
    \A j \in 1..Len(sub) : s[i + j] = sub[j]

IsPrefix(p, s) ==
  /\ Len(p) <= Len(s)
  /\ \A i \in 1..Len(p) : p[i] = s[i]

DigitCh == <<"0", "1", "2", "3", "4", "5", "6", "7", "8", "9">>

\* fmt.Sprintf("%d", n) for n >= 0.
RECURSIVE Itoa(_)
Itoa(n) ==
  IF n < 10 THEN <<DigitCh[n + 1]>>
  ELSE Append(Itoa(n \div 10), DigitCh[(n % 10) + 1])

sDROP == <<"D", "R", "O", "P">>
sBLOCK == <<"B", "L", "O", "C", "K">>
sACCEPT == <<"A", "C", "C", "E", "P", "T">>
sREJECT == <<"R", "E", "J", "E", "C", "T">>
sUNKNOWN == <<"U", "N", "K", "N", "O", "W", "N">>
sTCP == <<"T", "C", "P">>
sUDP == <<"U", "D", "P">>
sICMP == <<"I", "C", "M", "P">>
sEmpty == <<>>

(***************************************************************************)
(* parser: LogEntry, Action, normalizeProto, ParseLine.                    *)
(***************************************************************************)
\* LogEntry.Action testing ACCEPT before DROP and BLOCK.
ActionAcceptFirst(e) ==
  LET prefix == ToUpper(e.Prefix) IN
  IF Contains(prefix, sACCEPT) THEN sACCEPT
  ELSE IF Contains(prefix, sDROP) \/ Contains(prefix, sBLOCK) THEN sDROP
  ELSE IF Contains(prefix, sREJECT) THEN sREJECT
  ELSE IF e.Prefix # sEmpty THEN e.Prefix
  ELSE sUNKNOWN

\* LogEntry.Action.
Action(e) ==
  LET prefix == ToUpper(e.Prefix) IN
  IF Contains(prefix, sDROP) \/ Contains(prefix, sBLOCK) THEN sDROP
  ELSE IF Contains(prefix, sACCEPT) THEN sACCEPT
  ELSE IF Contains(prefix, sREJECT) THEN sREJECT
  ELSE IF e.Prefix # sEmpty THEN e.Prefix
  ELSE sUNKNOWN

\* protoNames, the entries the modelled lines use.
sIPv4 == <<"I", "P", "v", "4">>

protoNames ==
  (<<"1">> :> sICMP) @@ (<<"4">> :> sIPv4) @@ (<<"6">> :> sTCP)
    @@ (<<"1", "7">> :> sUDP)

\* normalizeProto without strings.ToUpper.
normalizeProtoAsLogged(p) ==
  IF p \in DOMAIN protoNames THEN protoNames[p] ELSE p

normalizeProto(p) ==
  LET up == ToUpper(p) IN
  IF up \in DOMAIN protoNames THEN protoNames[up] ELSE up

\* The addresses of the modelled lines.
ipExt == <<"a", "1">>
ipInt == <<"a", "0">>
ipMcast == <<"f", "f">>

\* strconv.Atoi on a string of digits.
DigitVal(c) == CHOOSE n \in 0..9 : DigitCh[n + 1] = c

RECURSIVE Atoi(_)
Atoi(s) ==
  IF Len(s) = 0 THEN 0
  ELSE 10 * Atoi(SubSeq(s, 1, Len(s) - 1)) + DigitVal(s[Len(s)])

\* strings.Trim(s, "[ ").
RECURSIVE TrimLeft(_)
TrimLeft(s) ==
  IF Len(s) > 0 /\ s[1] \in {"[", " "} THEN TrimLeft(Tail(s)) ELSE s

RECURSIVE TrimRight(_)
TrimRight(s) ==
  IF Len(s) > 0 /\ s[Len(s)] \in {"[", " "}
    THEN TrimRight(SubSeq(s, 1, Len(s) - 1))
    ELSE s

Trim(s) == TrimRight(TrimLeft(s))

\* The leading token of a line: the syslog form (month, day, time), the form
\* with date, time and offset, a token of the syslog shape that is no date,
\* and anything else.
TsSyslog == [form |-> "syslog", date |-> <<0, "Feb 3">>, at |-> "10:02:11"]
TsIso == [form |-> "iso", date |-> <<2026, "Feb 22">>, at |-> "00:00:28"]
TsBad == [form |-> "syslog", date |-> <<0, "Foo 99">>, at |-> "99:99:99"]
TsNone == [form |-> "none", date |-> <<0, "">>, at |-> ""]

\* The month and day that time.Parse accepts.
MonthDays == {"Feb 3", "Feb 22"}

\* The years the clock of the machine shows while the program runs, and the
\* year that the event loop is followed in.
Years == 2026..2027
LoopYear == CHOOSE y \in Years : \A z \in Years : y <= z

\* parseTimestamp giving the year of the clock to both forms.
parseTimestampYearOfClock(s, now) ==
  IF s.date[2] \notin MonthDays THEN [ok |-> FALSE]
  ELSE [ok |-> TRUE, t |-> [date |-> <<now, s.date[2]>>, at |-> s.at]]

\* parseTimestamp, with now the year of time.Now(): the syslog form has no
\* year and gets the current one.
parseTimestamp(s, now) ==
  IF s.date[2] \notin MonthDays THEN [ok |-> FALSE]
  ELSE IF s.form = "iso" THEN [ok |-> TRUE, t |-> [date |-> s.date, at |-> s.at]]
  ELSE [ok |-> TRUE, t |-> [date |-> <<now, s.date[2]>>, at |-> s.at]]

\* A KEY=value token of a line.
Tok(k, v) == [k |-> k, v |-> v]

\* The first token of toks at or after from that has the key k and a value,
\* 0 when there is none.
FirstTok(toks, k, from) ==
  LET at == {i \in from..Len(toks) : toks[i].k = k /\ toks[i].v # sEmpty}
  IN IF at = {} THEN 0 ELSE CHOOSE i \in at : \A j \in at : i <= j

\* The first SRC= token that a DST= token follows at once.
SrcDstAt(toks) ==
  LET at == {i \in 1..(Len(toks) - 1) :
               /\ toks[i].k = "SRC" /\ toks[i].v # sEmpty
               /\ toks[i + 1].k = "DST" /\ toks[i + 1].v # sEmpty}
  IN IF at = {} THEN 0 ELSE CHOOSE i \in at : \A j \in at : i <= j

\* A raw line: id a name for it, ts its leading token, host the hostname, marker whether the
\* literal kernel: follows, prefix the text logLineRe captures before IN=,
\* in and out the values of IN= and OUT=, toks the tokens after OUT= in the
\* order of the line.
\*
\* logLineRe.FindStringSubmatch: SRC= and DST= side by side, PROTO= after
\* them, then SPT= if there is one after PROTO=, then DPT= if there is one
\* after that.
logLineRe(line) ==
  LET toks == line.toks
      i == SrcDstAt(toks)
      p == IF i = 0 THEN 0 ELSE FirstTok(toks, "PROTO", i + 2)
      sp == IF p = 0 THEN 0 ELSE FirstTok(toks, "SPT", p + 1)
      dp == IF p = 0 THEN 0
            ELSE FirstTok(toks, "DPT", IF sp = 0 THEN p + 1 ELSE sp + 1)
  IN IF line.ts.form = "none" \/ ~line.marker \/ i = 0 \/ p = 0
       THEN [ok |-> FALSE]
       ELSE [ok |-> TRUE,
             m |-> <<line.ts, line.host, line.prefix, line.in, line.out,
                     toks[i].v, toks[i + 1].v, toks[p].v,
                     IF sp = 0 THEN sEmpty ELSE toks[sp].v,
                     IF dp = 0 THEN sEmpty ELSE toks[dp].v>>]

\* ttlRe, lenRe: the digits of the first TTL= and LEN= of the line.
ttlRe(line) ==
  IF FirstTok(line.toks, "TTL", 1) = 0 THEN sEmpty
  ELSE line.toks[FirstTok(line.toks, "TTL", 1)].v

lenRe(line) ==
  IF FirstTok(line.toks, "LEN", 1) = 0 THEN sEmpty
  ELSE line.toks[FirstTok(line.toks, "LEN", 1)].v

LineDrop ==
  [id |-> "drop", ts |-> TsSyslog, host |-> "router", marker |-> TRUE,
   prefix |-> <<" ", "[", "u", "f", "w", " ", "b", "l", "o", "c", "k">>,
   in |-> "eth0", out |-> "",
   toks |-> <<Tok("MAC", <<"a">>), Tok("SRC", ipExt), Tok("DST", ipInt),
              Tok("LEN", <<"4", "0">>), Tok("TTL", <<"6", "4">>),
              Tok("PROTO", <<"6">>), Tok("SPT", <<"4", "0", "0", "0", "0">>),
              Tok("DPT", <<"2", "2">>)>>]

LineAccept ==
  [id |-> "accept", ts |-> TsIso, host |-> "router", marker |-> TRUE,
   prefix |-> sACCEPT,
   in |-> "", out |-> "eth1",
   toks |-> <<Tok("SRC", ipInt), Tok("DST", ipMcast),
              Tok("PROTO", <<"u", "d", "p">>)>>]

LineNoSrc ==
  [id |-> "nosrc", ts |-> TsSyslog, host |-> "router", marker |-> TRUE,
   prefix |-> sDROP,
   in |-> "eth0", out |-> "",
   toks |-> <<Tok("DST", ipInt), Tok("LEN", <<"4", "0">>),
              Tok("TTL", <<"6", "4">>), Tok("PROTO", sTCP),
              Tok("SPT", <<"1">>), Tok("DPT", <<"8", "0">>)>>]

LineNotLog ==
  [id |-> "notlog", ts |-> TsNone, host |-> "", marker |-> FALSE,
   prefix |-> sEmpty, in |-> "", out |-> "", toks |-> <<>>]

\* The empty string.
LineEmpty ==
  [id |-> "", ts |-> TsNone, host |-> "", marker |-> FALSE,
   prefix |-> sEmpty, in |-> "", out |-> "", toks |-> <<>>]

LogLines == {LineDrop, LineAccept, LineNoSrc, LineNotLog}

\* A line FnSpec adds to these: an address in capitals, a protocol number.
ipUpper == <<"F", "E">>

LineReject ==
  [id |-> "reject", ts |-> TsIso, host |-> "router", marker |-> TRUE,
   prefix |-> <<"r", "e", "j", "e", "c", "t">>,
   in |-> "eth1", out |-> "eth0",
   toks |-> <<Tok("SRC", ipUpper), Tok("DST", ipExt),
              Tok("LEN", <<"8", "4">>), Tok("TTL", <<"2", "5", "5">>),
              Tok("PROTO", <<"1">>)>>]

ParseFail == [ok |-> FALSE]

\* ParseLine, with now the year of the clock: the match of logLineRe, then
\* parseTimestamp, then the entry.
ParseLine(line, now) ==
  LET r == logLineRe(line) IN
  IF ~r.ok THEN ParseFail
  ELSE IF ~parseTimestamp(r.m[1], now).ok THEN ParseFail
  ELSE [ok |-> TRUE,
        entry |-> [Timestamp |-> parseTimestamp(r.m[1], now).t,
                   Hostname |-> r.m[2],
                   Prefix |-> Trim(r.m[3]), In |-> r.m[4], Out |-> r.m[5],
                   Src |-> r.m[6], Dst |-> r.m[7],
                   Proto |-> normalizeProto(r.m[8]),
                   SrcPort |-> IF r.m[9] # sEmpty THEN Atoi(r.m[9]) ELSE 0,
                   DstPort |-> IF r.m[10] # sEmpty THEN Atoi(r.m[10]) ELSE 0,
                   TTL |-> IF ttlRe(line) # sEmpty THEN Atoi(ttlRe(line))
                           ELSE 0,
                   Len |-> IF lenRe(line) # sEmpty THEN Atoi(lenRe(line))
                           ELSE 0,
                   Raw |-> line]]

\* The entries the event loop stores.
Entries ==
  {ParseLine(l, LoopYear).entry :
     l \in {x \in LogLines : ParseLine(x, LoopYear).ok}}

\* The entries FnSpec applies the functions of an entry to.
FnEntries == Entries \cup {ParseLine(LineReject, LoopYear).entry}

(***************************************************************************)
(* classifier: Categorize.                                                 *)
(***************************************************************************)
CatInternal == "Internal"
CatMulticast == "Multicast"
CatExternal == "External"

\* The classifier main makes before the program starts.
VARIABLES
  subnets         \* c.subnets: the addresses inside the captured subnets

\* net.ParseIP succeeds on these strings.
ParsableIPs == {ipExt, ipInt, ipMcast}
\* Members of multicastRanges, and of the subnets captured by classifier.New
\* on the host of the event loop's runs.
MulticastIPs == {ipMcast}
SubnetIPs == {ipInt, ipMcast}

\* Categorize looking at the subnets before the multicast ranges.
CategorizeSubnetsFirst(ipStr) ==
  IF ipStr \notin ParsableIPs THEN CatExternal
  ELSE IF ipStr \in subnets THEN CatInternal
  ELSE IF ipStr \in MulticastIPs THEN CatMulticast
  ELSE CatExternal

Categorize(ipStr) ==
  IF ipStr \notin ParsableIPs THEN CatExternal
  ELSE IF ipStr \in MulticastIPs THEN CatMulticast
  ELSE IF ipStr \in subnets THEN CatInternal
  ELSE CatExternal

(***************************************************************************)
(* model: the state of Model and of the runtime around it.                 *)
(***************************************************************************)
VARIABLES
  all,            \* m.all
  filtered,       \* m.filtered
  cursor,         \* m.cursor
  tab,            \* m.tab
  filters,        \* m.filters: Action, Proto, IPSubstr
  searching,      \* m.searching
  searchInput,    \* m.searchInput: its value and its focus
  detailOpen,     \* m.detailOpen
  detailEntry,    \* m.detailEntry
  stats,          \* m.stats
  size,           \* m.width, m.height
  whoisCache,     \* m.whoisCache
  whoisPending,   \* m.whoisPending: the keys of the map
  err,            \* m.err
  whoisRunning,   \* per IP, the lookup commands started and not yet delivered
  whoisIssued,    \* per IP, the lookup commands ever started
  dropped,        \* NewLineMsg messages whose line did not parse
  quitCmds,       \* tea.Quit commands returned and not yet acted on
  running,        \* the program: "running", "exited", "panicked"
  done            \* the tailer's done channel: "open" or "closed"

\* The tailer, the file and the forwarder (described with their actions).
VARIABLES
  files,          \* the contents of the files ever at the path, by inode
  pathIno,        \* the inode now at the watched path, 0 when there is none
  writes,         \* bytes appended so far
  rotations,      \* truncations, replacements and removals so far
  history,        \* the history argument of Start
  tpc,            \* where the worker is in run
  tf,             \* f: the inode the worker has open
  tpos,           \* the read position of f in the kernel
  rbuf,           \* reader: bytes read from f and not yet returned
  tline,          \* the stripped line about to be sent, and the read's error
  offset,         \* offset
  Lines,          \* t.Lines
  Errors,         \* t.Errors
  fpc,            \* where the forwarding goroutine of main is
  fmsg,           \* the message it is passing to p.Send
  processed,      \* the tailer messages Update has received, in order
  sent,           \* every line sent on Lines, in order, with where it was read
  errsSent,       \* values sent on Errors
  errsDropped,    \* errors sendErr dropped because Errors was full
  epoch,          \* times the worker has opened the path
  startInfo       \* what the first open found and where the first read began

\* A function of the program applied on its own: its arguments and its result.
VARIABLES
  fnArgs,         \* the function called and its arguments
  fnRes           \* its result, once it returned

fnVars == <<fnArgs, fnRes>>

tailVars ==
  <<files, pathIno, writes, rotations, history, tpc, tf, tpos, rbuf, tline,
    offset, Lines, Errors, fpc, fmsg, processed, sent, errsSent, errsDropped,
    epoch, startInfo>>

uiVars ==
  <<all, filtered, cursor, tab, filters, searching, searchInput, detailOpen,
    detailEntry, stats, size, whoisCache, whoisPending, err, whoisRunning,
    whoisIssued, dropped, quitCmds, running>>

TabLogs == 0
TabStats == 1
TabFilters == 2
\* The tabs (tab + 1) % 3 cycles through.
NumTabs == 3
\* Rows a pgup or pgdown moves the cursor.
PageRows == 20

EmptyMap == [k \in {} |-> 0]

\* m[k]++ on a Go map.
Inc(m, k) ==
  IF k \in DOMAIN m THEN [m EXCEPT ![k] = @ + 1] ELSE (k :> 1) @@ m

\* ui.NewStats.
NewStats ==
  [Total |-> 0, ByAction |-> EmptyMap, ByProto |-> EmptyMap,
   ByIface |-> EmptyMap, BySrcIP |-> EmptyMap, ByDstPort |-> EmptyMap]

\* ui.Filters{}.
NoFilters == [Action |-> sEmpty, Proto |-> sEmpty, IPSubstr |-> sEmpty]

\* parser.LogEntry{}.
ZeroEntry ==
  [Timestamp |-> [date |-> <<1, "Jan 1">>, at |-> "00:00:00"], Hostname |-> "",
   Prefix |-> sEmpty, In |-> "", Out |-> "",
   Src |-> sEmpty, Dst |-> sEmpty, Proto |-> sEmpty, SrcPort |-> 0,
   DstPort |-> 0, TTL |-> 0, Len |-> 0, Raw |-> LineEmpty]

\* whois.Result{} and a result with fields found.
EmptyResult == [Subnet |-> "", NetName |-> "", ASN |-> "", Org |-> ""]
FoundResult ==
  [Subnet |-> "203.0.113.0/24", NetName |-> "EXAMPLE-NET", ASN |-> "AS64496",
   Org |-> "Example"]
\* The keys parse looks for, in lower case as firstMatch compares them.
SubnetKeys == {"inetnum", "netrange", "cidr"}
NetNameKeys == {"netname"}
ASNKeys == {"aut-num", "originas"}
OrgKeys == {"org-name", "orgname", "organization", "org"}

\* A line of the output of whois: key what stands before its first colon,
\* in lower case; val the rest, trimmed. Values firstMatch passes over.
WLine(k, v) == [key |-> k, val |-> v]
SkippedVals == {"", "# no entries"}

\* firstMatch: the value of the first line with one of the keys and a value.
firstMatch(lines, keys) ==
  LET hits == {i \in 1..Len(lines) :
                 lines[i].key \in keys /\ lines[i].val \notin SkippedVals}
  IN IF hits = {} THEN ""
     ELSE lines[CHOOSE i \in hits : \A j \in hits : i <= j].val

parse(output) ==
  [Subnet |-> firstMatch(output, SubnetKeys),
   NetName |-> firstMatch(output, NetNameKeys),
   ASN |-> firstMatch(output, ASNKeys),
   Org |-> firstMatch(output, OrgKeys)]

\* What whois prints: a full record. Below, OutNone is output with nothing
\* of use and OutCut the full record cut short.
OutFound ==
  <<WLine("% abuse contact", ""), WLine("inetnum", "203.0.113.0/24"),
    WLine("netname", "EXAMPLE-NET"), WLine("org", "# no entries"),
    WLine("org-name", "Example"), WLine("aut-num", "AS64496")>>

\* A run of exec.CommandContext(ctx, "whois", ip).Output(): err is nil, or
\* says that the tool is not installed, that it exited non-zero, or that the
\* context's 10 seconds ran out and the process was killed; out is what it
\* had written to stdout.
ExecRuns ==
  LET OutNone == <<WLine("% no entries found", ""), WLine("netname", "")>>
      OutCut == SubSeq(OutFound, 1, 3)
  IN {[err |-> "nil", out |-> OutFound], [err |-> "nil", out |-> OutNone],
      [err |-> "not found", out |-> <<>>],
      [err |-> "exit status 1", out |-> OutFound],
      [err |-> "exit status 1", out |-> OutNone],
      [err |-> "killed", out |-> OutCut], [err |-> "killed", out |-> <<>>]}

\* Lookup parsing whatever was written, the error not looked at.
LookupParsesOutput(run) == parse(run.out)

\* whois.Lookup, given the run of the tool.
Lookup(run) == IF run.err # "nil" THEN EmptyResult ELSE parse(run.out)

\* What whois.Lookup can return.
WhoisResults == {Lookup(run) : run \in ExecRuns}

\* The addresses a lookup can be about.
IPs == {e.Src : e \in Entries}

\* The window sizes the terminal reports.
WindowSizes == {<<80, 24>>}

\* model.New, and the runtime before its first message.
UIInit ==
  /\ all = <<>>
  /\ filtered = <<>>
  /\ cursor = 0
  /\ tab = TabLogs
  /\ filters = NoFilters
  /\ searching = FALSE
  /\ searchInput = [value |-> sEmpty, focus |-> FALSE]
  /\ detailOpen = FALSE
  /\ detailEntry = ZeroEntry
  /\ stats = NewStats
  /\ size = <<0, 0>>
  /\ whoisCache = EmptyMap
  /\ whoisPending = {}
  /\ err = "nil"
  /\ whoisRunning = [ip \in IPs |-> 0]
  /\ whoisIssued = [ip \in IPs |-> 0]
  /\ dropped = 0
  /\ quitCmds = 0
  /\ running = "running"

\* matchesFilter looking for the substring in the source address only.
matchesFilterSrcOnly(f, e) ==
  IF f.Action # sEmpty /\ Action(e) # f.Action THEN FALSE
  ELSE IF f.Proto # sEmpty /\ e.Proto # f.Proto THEN FALSE
  ELSE IF f.IPSubstr # sEmpty
    THEN Contains(ToLower(e.Src), ToLower(f.IPSubstr))
    ELSE TRUE

\* Model.matchesFilter, of the filters f and the entry e.
matchesFilter(f, e) ==
  IF f.Action # sEmpty /\ Action(e) # f.Action THEN FALSE
  ELSE IF f.Proto # sEmpty /\ e.Proto # f.Proto THEN FALSE
  ELSE IF f.IPSubstr # sEmpty
    THEN LET sub == ToLower(f.IPSubstr) IN
         ~(~Contains(ToLower(e.Src), sub) /\ ~Contains(ToLower(e.Dst), sub))
    ELSE TRUE

\* Model.applyFilters, the rebuilt slice.
applyFiltersList(allv, f) == SelectSeq(allv, LAMBDA e : matchesFilter(f, e))

\* The clamp stepping the cursor back by one instead of to the last index.
clampCursorStep(c, n) ==
  LET c1 == IF c >= n THEN c - 1 ELSE c IN
  IF c1 < 0 THEN 0 ELSE c1

\* The clamp without its test for a negative cursor.
clampCursorNoFloor(c, n) == IF c >= n THEN n - 1 ELSE c

\* Model.applyFilters, the clamp of the cursor c into a view of n entries.
clampCursor(c, n) ==
  LET c1 == IF c >= n THEN n - 1 ELSE c IN
  IF c1 < 0 THEN 0 ELSE c1

\* Model.applyFilters under the filters f (all is left as it is).
applyFilters(f) ==
  /\ filtered' = applyFiltersList(all, f)
  /\ cursor' = clampCursor(cursor, Len(applyFiltersList(all, f)))

\* Model.applyFilters as a function of m.all, m.filters and m.cursor.
applyFiltersOf(allv, f, c) ==
  [filtered |-> applyFiltersList(allv, f),
   cursor |-> clampCursor(c, Len(applyFiltersList(allv, f)))]

\* addEntry with the increment of Total left out.
addEntryStatsNoTotal(s, e) ==
  [Total |-> s.Total,
   ByAction |-> Inc(s.ByAction, Action(e)),
   ByProto |-> Inc(s.ByProto, e.Proto),
   ByIface |-> IF e.In # "" THEN Inc(s.ByIface, e.In) ELSE s.ByIface,
   BySrcIP |-> Inc(s.BySrcIP, e.Src),
   ByDstPort |-> IF e.DstPort # 0 THEN Inc(s.ByDstPort, Itoa(e.DstPort))
                 ELSE s.ByDstPort]

\* addEntry counting the interface and the port whatever their value.
addEntryStatsEveryBucket(s, e) ==
  [Total |-> s.Total + 1,
   ByAction |-> Inc(s.ByAction, Action(e)),
   ByProto |-> Inc(s.ByProto, e.Proto),
   ByIface |-> Inc(s.ByIface, e.In),
   BySrcIP |-> Inc(s.BySrcIP, e.Src),
   ByDstPort |-> Inc(s.ByDstPort, Itoa(e.DstPort))]

\* Model.addEntry, the counters.
addEntryStats(s, e) ==
  [Total |-> s.Total + 1,
   ByAction |-> Inc(s.ByAction, Action(e)),
   ByProto |-> Inc(s.ByProto, e.Proto),
   ByIface |-> IF e.In # "" THEN Inc(s.ByIface, e.In) ELSE s.ByIface,
   BySrcIP |-> Inc(s.BySrcIP, e.Src),
   ByDstPort |-> IF e.DstPort # 0 THEN Inc(s.ByDstPort, Itoa(e.DstPort))
                 ELSE s.ByDstPort]

\* addEntry appending to the view whatever the filters say.
addEntryFilteredAlways(fl, f, e) == Append(fl, e)

\* Model.addEntry, the filtered view.
addEntryFiltered(fl, f, e) == IF matchesFilter(f, e) THEN Append(fl, e) ELSE fl

\* addEntry following the new entry wherever the cursor was.
followCursorAlways(c, detail, n) == n - 1

\* Model.addEntry, the cursor after a matching entry made the view n long.
followCursor(c, detail, n) == IF ~detail /\ c = n - 2 THEN n - 1 ELSE c

\* addEntry putting the newest entry first.
addEntryNewestFirst(e) ==
  /\ all' = <<e>> \o all
  /\ stats' = addEntryStats(stats, e)
  /\ filtered' = addEntryFiltered(filtered, filters, e)
  /\ cursor' = IF matchesFilter(filters, e)
                 THEN followCursor(cursor, detailOpen, Len(filtered) + 1)
                 ELSE cursor

\* Model.addEntry.
addEntry(e) ==
  /\ all' = Append(all, e)
  /\ stats' = addEntryStats(stats, e)
  /\ filtered' = addEntryFiltered(filtered, filters, e)
  /\ cursor' = IF matchesFilter(filters, e)
                 THEN followCursor(cursor, detailOpen, Len(filtered) + 1)
                 ELSE cursor

(***************************************************************************)
(* model: Update, one action per message kind and per branch of handleKey. *)
(***************************************************************************)
\* The key events of the model (tea.KeyMsg.String()).
Keys ==
  {"q", "ctrl+c", "esc", "enter", "1", "2", "3", "tab", "up", "k", "down",
   "j", "pgup", "pgdown", "d", "a", "t", "u", "/", "c", "backspace", "A"}

QuitKeys == {"q", "ctrl+c"}
TabKeys == {"1", "2", "3", "tab"}
MoveKeys == {"up", "k", "down", "j", "pgup", "pgdown"}
ToggleKeys == {"d", "a", "t", "u"}

\* The texts the model types into the search input (the input itself takes
\* up to CharLimit characters): a key that would leave this set is not pressed.
SearchTexts == {sEmpty, <<"A">>}

\* The keys that are single printable characters (tea.KeyRunes).
RuneKeys == {"1", "2", "3", "k", "j", "d", "a", "t", "u", "/", "c", "A"}


\* textinput.Model.Update on a key: nothing when blurred; a rune is appended,
\* backspace removes the last character, any other key leaves the value.
textinputUpdate(ti, key) ==
  IF ~ti.focus THEN ti
  ELSE IF key \in RuneKeys THEN [ti EXCEPT !.value = Append(@, key)]
  ELSE IF key = "backspace" /\ Len(ti.value) > 0
    THEN [ti EXCEPT !.value = SubSeq(@, 1, Len(@) - 1)]
  ELSE ti

\* Update, case tea.WindowSizeMsg.
WindowSize(sz) ==
  /\ running = "running"
  /\ size' = sz
  /\ UNCHANGED <<fnVars, subnets, tailVars, dropped, all, filtered, cursor, tab, filters, searching, searchInput,
                 detailOpen, detailEntry, stats, whoisCache, whoisPending, err,
                 whoisRunning, whoisIssued, quitCmds, running, done>>

\* Update, case TailerErrMsg.
TailerErr ==
  /\ running = "running"
  /\ err' = "tailer error"
  /\ UNCHANGED <<fnVars, subnets, tailVars, dropped, all, filtered, cursor, tab, filters, searching, searchInput,
                 detailOpen, detailEntry, stats, size, whoisCache,
                 whoisPending, whoisRunning, whoisIssued, quitCmds, running,
                 done>>

\* Update on a NewLineMsg with a parse error taken for a fatal one.
NewLineFatal(line) ==
  /\ running = "running"
  /\ Len(all) + dropped < MaxAll
  /\ IF ParseLine(line, LoopYear).ok
       THEN /\ addEntry(ParseLine(line, LoopYear).entry)
            /\ UNCHANGED <<dropped, err>>
       ELSE /\ dropped' = dropped + 1
            /\ err' = "parse error"
            /\ UNCHANGED <<all, filtered, cursor, stats>>
  /\ UNCHANGED <<fnVars, subnets, tailVars, tab, filters, searching, searchInput, detailOpen,
                 detailEntry, size, whoisCache, whoisPending,
                 whoisRunning, whoisIssued, quitCmds, running, done>>

\* Update, case NewLineMsg: the entry is stored, or the line is skipped.
NewLine(line) ==
  /\ running = "running"
  /\ Len(all) + dropped < MaxAll
  /\ IF ParseLine(line, LoopYear).ok
       THEN /\ addEntry(ParseLine(line, LoopYear).entry)
            /\ UNCHANGED dropped
       ELSE /\ dropped' = dropped + 1
            /\ UNCHANGED <<all, filtered, cursor, stats>>
  /\ UNCHANGED <<fnVars, subnets, tailVars, tab, filters, searching, searchInput, detailOpen,
                 detailEntry, size, whoisCache, whoisPending, err,
                 whoisRunning, whoisIssued, quitCmds, running, done>>

\* Update on a WhoisMsg keeping an all-empty result out of the cache.
WhoisSkipsEmpty(ip, info) ==
  /\ running = "running"
  /\ whoisRunning[ip] > 0
  /\ whoisRunning' = [whoisRunning EXCEPT ![ip] = @ - 1]
  /\ whoisCache' = IF info = EmptyResult THEN whoisCache
                   ELSE (ip :> info) @@ whoisCache
  /\ whoisPending' = whoisPending \ {ip}
  /\ UNCHANGED <<fnVars, subnets, tailVars, dropped, all, filtered, cursor, tab, filters, searching, searchInput,
                 detailOpen, detailEntry, stats, size, err, whoisIssued,
                 quitCmds, running, done>>

\* Update on a WhoisMsg leaving the address pending.
WhoisKeepsPending(ip, info) ==
  /\ running = "running"
  /\ whoisRunning[ip] > 0
  /\ whoisRunning' = [whoisRunning EXCEPT ![ip] = @ - 1]
  /\ whoisCache' = (ip :> info) @@ whoisCache
  /\ whoisPending' = whoisPending
  /\ UNCHANGED <<fnVars, subnets, tailVars, dropped, all, filtered, cursor, tab, filters, searching, searchInput,
                 detailOpen, detailEntry, stats, size, err, whoisIssued,
                 quitCmds, running, done>>

\* Update, case WhoisMsg: the message of a finished lookup command.
Whois(ip, info) ==
  /\ running = "running"
  /\ whoisRunning[ip] > 0
  /\ whoisRunning' = [whoisRunning EXCEPT ![ip] = @ - 1]
  /\ whoisCache' = (ip :> info) @@ whoisCache
  /\ whoisPending' = whoisPending \ {ip}
  /\ UNCHANGED <<fnVars, subnets, tailVars, dropped, all, filtered, cursor, tab, filters, searching, searchInput,
                 detailOpen, detailEntry, stats, size, err, whoisIssued,
                 quitCmds, running, done>>

\* Update, any other message (the cursor blink of the text input): passed to
\* the search input when searching.
OtherMsg ==
  /\ running = "running"
  /\ IF searching
       THEN /\ filters' = [filters EXCEPT !.IPSubstr = searchInput.value]
            /\ applyFilters([filters EXCEPT !.IPSubstr = searchInput.value])
       ELSE UNCHANGED <<filters, filtered, cursor>>
  /\ UNCHANGED <<fnVars, subnets, tailVars, dropped, all, tab, searching, searchInput, detailOpen, detailEntry,
                 stats, size, whoisCache, whoisPending, err, whoisRunning,
                 whoisIssued, quitCmds, running, done>>

\* handleKey, q or ctrl+c: Stop, then tea.Quit.  Stop closes done, and closing
\* a closed channel panics.
KeyQuit(key) ==
  /\ running = "running"
  /\ key \in QuitKeys
  /\ IF done = "closed"
       THEN /\ running' = "panicked"
            /\ UNCHANGED <<done, quitCmds>>
       ELSE /\ done' = "closed"
            /\ quitCmds' = quitCmds + 1
            /\ UNCHANGED running
  /\ UNCHANGED <<fnVars, subnets, tailVars, dropped, all, filtered, cursor, tab, filters, searching, searchInput,
                 detailOpen, detailEntry, stats, size, whoisCache,
                 whoisPending, err, whoisRunning, whoisIssued>>

\* The runtime acts on tea.Quit: the event loop ends.
QuitMsg ==
  /\ running = "running"
  /\ quitCmds > 0
  /\ running' = "exited"
  /\ UNCHANGED <<fnVars, subnets, tailVars, dropped, all, filtered, cursor, tab, filters, searching, searchInput,
                 detailOpen, detailEntry, stats, size, whoisCache,
                 whoisPending, err, whoisRunning, whoisIssued, quitCmds, done>>

\* The open overlay moving to the next entry on down or j.
KeyDetailBrowses(key) ==
  /\ running = "running"
  /\ key \notin QuitKeys
  /\ detailOpen
  /\ IF key \in {"esc", "enter"}
       THEN /\ detailOpen' = FALSE
            /\ cursor' = IF Len(filtered) > 0 THEN Len(filtered) - 1 ELSE cursor
            /\ UNCHANGED detailEntry
       ELSE IF key \in {"down", "j"} /\ cursor >= 0
                  /\ cursor < Len(filtered) - 1
              THEN /\ cursor' = cursor + 1
                   /\ detailEntry' = filtered[cursor + 2]
                   /\ UNCHANGED detailOpen
              ELSE UNCHANGED <<detailOpen, cursor, detailEntry>>
  /\ UNCHANGED <<fnVars, subnets, tailVars, dropped, all, filtered, tab, filters, searching, searchInput,
                 stats, size, whoisCache, whoisPending, err,
                 whoisRunning, whoisIssued, quitCmds, running, done>>

\* handleKey while the detail overlay is open.
\* The overlay closing with the cursor left where it was.
KeyDetailKeepsCursor(key) ==
  /\ running = "running"
  /\ key \notin QuitKeys
  /\ detailOpen
  /\ IF key \in {"esc", "enter"}
       THEN /\ detailOpen' = FALSE
            /\ cursor' = cursor
       ELSE UNCHANGED <<detailOpen, cursor>>
  /\ UNCHANGED <<fnVars, subnets, tailVars, dropped, all, filtered, tab, filters, searching, searchInput,
                 detailEntry, stats, size, whoisCache, whoisPending, err,
                 whoisRunning, whoisIssued, quitCmds, running, done>>

KeyDetail(key) ==
  /\ running = "running"
  /\ key \notin QuitKeys
  /\ detailOpen
  /\ IF key \in {"esc", "enter"}
       THEN /\ detailOpen' = FALSE
            /\ cursor' = IF Len(filtered) > 0 THEN Len(filtered) - 1 ELSE cursor
       ELSE UNCHANGED <<detailOpen, cursor>>
  /\ UNCHANGED <<fnVars, subnets, tailVars, dropped, all, filtered, tab, filters, searching, searchInput,
                 detailEntry, stats, size, whoisCache, whoisPending, err,
                 whoisRunning, whoisIssued, quitCmds, running, done>>

\* handleKey while the search input is open.
KeySearch(key) ==
  /\ running = "running"
  /\ key \notin QuitKeys
  /\ ~detailOpen
  /\ searching
  /\ textinputUpdate(searchInput, key).value \in SearchTexts
  /\ LET closing == key \in {"esc", "enter"}
         ti1 == IF closing THEN [searchInput EXCEPT !.focus = FALSE]
                ELSE searchInput
         f1 == IF closing THEN [filters EXCEPT !.IPSubstr = ti1.value]
               ELSE filters
         c1 == IF closing
                 THEN clampCursor(cursor, Len(applyFiltersList(all, f1)))
               ELSE cursor
         ti2 == textinputUpdate(ti1, key)
         f2 == [f1 EXCEPT !.IPSubstr = ti2.value]
     IN /\ searching' = IF closing THEN FALSE ELSE searching
        /\ searchInput' = ti2
        /\ filters' = f2
        /\ filtered' = applyFiltersList(all, f2)
        /\ cursor' = clampCursor(c1, Len(applyFiltersList(all, f2)))
  /\ UNCHANGED <<fnVars, subnets, tailVars, dropped, all, tab, detailOpen, detailEntry, stats, size, whoisCache,
                 whoisPending, err, whoisRunning, whoisIssued, quitCmds,
                 running, done>>

Browsing == running = "running" /\ ~detailOpen /\ ~searching

\* handleKey, tab switching.
KeyTabInOverlay(key) ==
  /\ running = "running"
  /\ key \in TabKeys
  /\ tab' = CASE key = "1" -> TabLogs
              [] key = "2" -> TabStats
              [] key = "3" -> TabFilters
              [] key = "tab" -> (tab + 1) % NumTabs
  /\ UNCHANGED <<fnVars, subnets, tailVars, dropped, all, filtered, cursor, filters, searching, searchInput,
                 detailOpen, detailEntry, stats, size, whoisCache,
                 whoisPending, err, whoisRunning, whoisIssued, quitCmds,
                 running, done>>

KeyTab(key) ==
  /\ Browsing
  /\ key \in TabKeys
  /\ tab' = CASE key = "1" -> TabLogs
              [] key = "2" -> TabStats
              [] key = "3" -> TabFilters
              [] key = "tab" -> (tab + 1) % NumTabs
  /\ UNCHANGED <<fnVars, subnets, tailVars, dropped, all, filtered, cursor, filters, searching, searchInput,
                 detailOpen, detailEntry, stats, size, whoisCache,
                 whoisPending, err, whoisRunning, whoisIssued, quitCmds,
                 running, done>>

\* handleKey, Logs tab: up, k, down, j, pgup, pgdown.
KeyMove(key) ==
  /\ Browsing
  /\ tab = TabLogs
  /\ key \in MoveKeys
  /\ cursor' =
       CASE key \in {"up", "k"} -> IF cursor > 0 THEN cursor - 1 ELSE cursor
         [] key \in {"down", "j"} ->
              IF cursor < Len(filtered) - 1 THEN cursor + 1 ELSE cursor
         [] key = "pgup" ->
              IF cursor - PageRows < 0 THEN 0 ELSE cursor - PageRows
         [] key = "pgdown" ->
              IF cursor + PageRows >= Len(filtered) THEN Len(filtered) - 1
              ELSE cursor + PageRows
  /\ UNCHANGED <<fnVars, subnets, tailVars, dropped, all, filtered, tab, filters, searching, searchInput,
                 detailOpen, detailEntry, stats, size, whoisCache,
                 whoisPending, err, whoisRunning, whoisIssued, quitCmds,
                 running, done>>

\* The lookup decision with the cache left unconsulted.
startsLookupNoCache(src, cache, pending) ==
  /\ Categorize(src) = CatExternal
  /\ src \notin pending

\* The lookup decision with the category of the address left unconsulted.
startsLookupAnyCategory(src, cache, pending) ==
  /\ src \notin pending
  /\ src \notin DOMAIN cache

\* The lookup decision retrying an address whose cached result is empty.
startsLookupRetryEmpty(src, cache, pending) ==
  /\ Categorize(src) = CatExternal
  /\ src \notin pending
  /\ src \in DOMAIN cache => cache[src] = EmptyResult

\* handleKey, Logs tab, enter: whether a lookup command is returned for src.
startsLookup(src, cache, pending) ==
  /\ Categorize(src) = CatExternal
  /\ src \notin pending
  /\ src \notin DOMAIN cache

\* handleKey, Logs tab, enter: the detail overlay opens on the entry under the
\* cursor; indexing the view at a negative cursor panics.
KeyEnter ==
  /\ Browsing
  /\ tab = TabLogs
  /\ IF Len(filtered) > 0 /\ cursor < Len(filtered)
       THEN IF cursor < 0
              THEN /\ running' = "panicked"
                   /\ UNCHANGED <<detailEntry, detailOpen, whoisPending,
                                  whoisRunning, whoisIssued>>
              ELSE /\ detailEntry' = filtered[cursor + 1]
                   /\ detailOpen' = TRUE
                   /\ UNCHANGED running
                   /\ LET src == filtered[cursor + 1].Src IN
                      IF startsLookup(src, whoisCache, whoisPending)
                        THEN /\ whoisPending' = whoisPending \cup {src}
                             /\ whoisRunning' =
                                  [whoisRunning EXCEPT ![src] = @ + 1]
                             /\ whoisIssued' =
                                  [whoisIssued EXCEPT ![src] = @ + 1]
                        ELSE UNCHANGED <<whoisPending, whoisRunning,
                                         whoisIssued>>
       ELSE UNCHANGED <<detailEntry, detailOpen, whoisPending, whoisRunning,
                        whoisIssued, running>>
  /\ UNCHANGED <<fnVars, subnets, tailVars, dropped, all, filtered, cursor, tab, filters, searching, searchInput,
                 stats, size, whoisCache, err, quitCmds, done>>

\* The quick filters setting their value and never clearing it.
toggleFilterSetOnly(f, key) ==
  CASE key = "d" -> [f EXCEPT !.Action = sDROP]
    [] key = "a" -> [f EXCEPT !.Action = sACCEPT]
    [] key = "t" -> [f EXCEPT !.Proto = sTCP]
    [] key = "u" -> [f EXCEPT !.Proto = sUDP]

\* handleKey, Logs tab, d, a, t, u: the filters after the toggle.
toggleFilter(f, key) ==
  CASE key = "d" ->
         [f EXCEPT !.Action = IF f.Action = sDROP THEN sEmpty ELSE sDROP]
    [] key = "a" ->
         [f EXCEPT !.Action = IF f.Action = sACCEPT THEN sEmpty ELSE sACCEPT]
    [] key = "t" ->
         [f EXCEPT !.Proto = IF f.Proto = sTCP THEN sEmpty ELSE sTCP]
    [] key = "u" ->
         [f EXCEPT !.Proto = IF f.Proto = sUDP THEN sEmpty ELSE sUDP]

\* handleKey, Logs tab: d, a, t, u.
KeyToggle(key) ==
  /\ Browsing
  /\ tab = TabLogs
  /\ key \in ToggleKeys
  /\ filters' = toggleFilter(filters, key)
  /\ applyFilters(toggleFilter(filters, key))
  /\ UNCHANGED <<fnVars, subnets, tailVars, dropped, all, tab, searching, searchInput, detailOpen, detailEntry,
                 stats, size, whoisCache, whoisPending, err, whoisRunning,
                 whoisIssued, quitCmds, running, done>>

\* handleKey, Logs tab, /: the search input opens.
KeySlash ==
  /\ Browsing
  /\ tab = TabLogs
  /\ searching' = TRUE
  /\ searchInput' = [searchInput EXCEPT !.focus = TRUE]
  /\ UNCHANGED <<fnVars, subnets, tailVars, dropped, all, filtered, cursor, tab, filters, detailOpen, detailEntry,
                 stats, size, whoisCache, whoisPending, err, whoisRunning,
                 whoisIssued, quitCmds, running, done>>

\* The clearing of the filters starting the counters afresh as well.
KeyClearResetsStats(key) ==
  /\ Browsing
  /\ \/ tab = TabLogs /\ key = "esc"
     \/ tab = TabFilters /\ key = "c"
  /\ filters' = NoFilters
  /\ searchInput' = [searchInput EXCEPT !.value = sEmpty]
  /\ applyFilters(NoFilters)
  /\ stats' = NewStats
  /\ UNCHANGED <<fnVars, subnets, tailVars, dropped, all, tab, searching, detailOpen, detailEntry, size,
                 whoisCache, whoisPending, err, whoisRunning, whoisIssued,
                 quitCmds, running, done>>

\* handleKey, esc on the Logs tab and c on the Filters tab: every filter and
\* the search text are cleared.
\* The clearing keys resetting the filters and leaving the search input.
KeyClearKeepsInput(key) ==
  /\ Browsing
  /\ \/ tab = TabLogs /\ key = "esc"
     \/ tab = TabFilters /\ key = "c"
  /\ filters' = NoFilters
  /\ searchInput' = searchInput
  /\ applyFilters(NoFilters)
  /\ UNCHANGED <<fnVars, subnets, tailVars, dropped, all, tab, searching, detailOpen, detailEntry, stats, size,
                 whoisCache, whoisPending, err, whoisRunning, whoisIssued,
                 quitCmds, running, done>>

KeyClear(key) ==
  /\ Browsing
  /\ \/ tab = TabLogs /\ key = "esc"
     \/ tab = TabFilters /\ key = "c"
  /\ filters' = NoFilters
  /\ searchInput' = [searchInput EXCEPT !.value = sEmpty]
  /\ applyFilters(NoFilters)
  /\ UNCHANGED <<fnVars, subnets, tailVars, dropped, all, tab, searching, detailOpen, detailEntry, stats, size,
                 whoisCache, whoisPending, err, whoisRunning, whoisIssued,
                 quitCmds, running, done>>

\* handleKey, a key no branch acts on.
KeyIgnored(key) ==
  /\ Browsing
  /\ key \notin QuitKeys \cup TabKeys
  /\ tab = TabLogs => key \notin MoveKeys \cup ToggleKeys \cup {"enter", "/", "esc"}
  /\ tab = TabFilters => key # "c"
  /\ UNCHANGED <<fnVars, subnets, tailVars, dropped, all, filtered, cursor, tab, filters, searching, searchInput,
                 detailOpen, detailEntry, stats, size, whoisCache,
                 whoisPending, err, whoisRunning, whoisIssued, quitCmds,
                 running, done>>

\* handleKey on the key event key, whichever branch takes it.
handleKey(key) ==
  \/ KeyQuit(key)
  \/ KeyDetail(key)
  \/ KeySearch(key)
  \/ KeyTab(key)
  \/ KeyMove(key)
  \/ key = "enter" /\ KeyEnter
  \/ KeyToggle(key)
  \/ key = "/" /\ KeySlash
  \/ KeyClear(key)
  \/ KeyIgnored(key)

\* View: the fatal error alone when there is one, otherwise the tab bar, the
\* body of the active tab and the footer.
View ==
  IF err # "nil" THEN [screen |-> "fatal", err |-> err]
  ELSE [screen |-> "tabs", tab |-> tab,
        body |-> CASE tab = TabLogs /\ detailOpen ->
                        [page |-> "detail", entry |-> detailEntry,
                         whois |-> IF detailEntry.Src \in DOMAIN whoisCache
                                     THEN <<whoisCache[detailEntry.Src]>>
                                     ELSE <<>>,
                         loading |-> detailEntry.Src \in whoisPending]
                   [] tab = TabLogs /\ ~detailOpen ->
                        [page |-> "logs", rows |-> filtered, cursor |-> cursor]
                   [] tab = TabStats -> [page |-> "stats", stats |-> stats]
                   [] tab = TabFilters -> [page |-> "filters", filters |-> filters],
        footer |-> IF detailOpen THEN "back"
                   ELSE IF searching THEN searchInput.value
                   ELSE "help"]

(***************************************************************************)
(* tailer: the watched file, the worker, the channels, the forwarder.      *)
(***************************************************************************)
\* Capacity of the Errors channel.
ErrorsCap == 8

\* The bytes the log writer appends; the file holds "o" bytes before Start.
WriteBytes == {"a", "\n"}
InitContents == {<<"o", "\n">>, <<"o">>}
\* The bytes the worker strips from the end of a line.
LineEnds == {"\n", "\r"}

NoLine == [text |-> <<>>, err |-> "nil", from |-> 0, complete |-> TRUE]
NoStart == [opened |-> FALSE, failed |-> FALSE, size |-> 0, readFrom |-> -1]

TailInit ==
  /\ history \in BOOLEAN
  /\ \/ pathIno = 0 /\ files = <<>>
     \/ pathIno = 1 /\ \E c \in InitContents : files = <<c>>
  /\ writes = 0
  /\ rotations = 0
  /\ tpc = "open"
  /\ tf = 0
  /\ tpos = 0
  /\ rbuf = <<>>
  /\ tline = NoLine
  /\ offset = 0
  /\ Lines = <<>>
  /\ Errors = <<>>
  /\ fpc = "select"
  /\ fmsg = <<>>
  /\ processed = <<>>
  /\ sent = <<>>
  /\ errsSent = 0
  /\ errsDropped = 0
  /\ epoch = 0
  /\ startInfo = NoStart

\* ---- the log writer and the rotation tooling ----

\* A byte is appended to the file at the path.
WriteByte(b) ==
  /\ pathIno # 0
  /\ writes < MaxWrites
  /\ writes' = writes + 1
  /\ files' = [files EXCEPT ![pathIno] = Append(@, b)]
  /\ UNCHANGED <<fnVars, subnets, uiVars, done, pathIno, rotations, history, tpc, tf, tpos, rbuf, tline,
                 offset, Lines, Errors, fpc, fmsg, processed, sent, errsSent,
                 errsDropped, epoch, startInfo>>

\* The file at the path is truncated to empty, as log rotation does
\* (copytruncate).
Truncate ==
  /\ pathIno # 0
  /\ rotations < MaxRotations
  /\ rotations' = rotations + 1
  /\ files' = [files EXCEPT ![pathIno] = <<>>]
  /\ UNCHANGED <<fnVars, subnets, uiVars, done, pathIno, writes, history, tpc, tf, tpos, rbuf, tline, offset,
                 Lines, Errors, fpc, fmsg, processed, sent, errsSent,
                 errsDropped, epoch, startInfo>>

\* The file at the path is moved away and a new, empty one created.
Replace ==
  /\ rotations < MaxRotations
  /\ rotations' = rotations + 1
  /\ files' = Append(files, <<>>)
  /\ pathIno' = Len(files) + 1
  /\ UNCHANGED <<fnVars, subnets, uiVars, done, writes, history, tpc, tf, tpos, rbuf, tline, offset, Lines,
                 Errors, fpc, fmsg, processed, sent, errsSent, errsDropped,
                 epoch, startInfo>>

\* The file at the path is removed.
Remove ==
  /\ pathIno # 0
  /\ rotations < MaxRotations
  /\ rotations' = rotations + 1
  /\ pathIno' = 0
  /\ UNCHANGED <<fnVars, subnets, uiVars, done, files, writes, history, tpc, tf, tpos, rbuf, tline, offset,
                 Lines, Errors, fpc, fmsg, processed, sent, errsSent,
                 errsDropped, epoch, startInfo>>

\* ---- Tailer.run ----

\* The goroutines run until a panic ends the process.
Alive == running # "panicked"

\* The index of the first "\n" of s, 0 when it has none.
NewlineAt(s) ==
  IF \E i \in 1..Len(s) : s[i] = "\n"
    THEN CHOOSE i \in 1..Len(s) : s[i] = "\n" /\ \A j \in 1..(i - 1) : s[j] # "\n"
    ELSE 0

\* run's strip of trailing newline characters: the length l that is kept.
RECURSIVE StripLen(_)
StripLen(line) ==
  IF Len(line) > 0 /\ line[Len(line)] \in LineEnds
    THEN StripLen(SubSeq(line, 1, Len(line) - 1))
    ELSE Len(line)

\* The bytes of the open file from the read position on.
Unread(ino, pos) ==
  IF pos >= Len(files[ino]) THEN <<>>
  ELSE SubSeq(files[ino], pos + 1, Len(files[ino]))

\* reader.ReadString('\n'): the data returned, the error, what stays buffered
\* and the read position afterwards.  With fault, the read of f fails.
ReadString(buf, ino, pos, fault) ==
  IF NewlineAt(buf) # 0
    THEN [line |-> SubSeq(buf, 1, NewlineAt(buf)), err |-> "nil",
          buf |-> SubSeq(buf, NewlineAt(buf) + 1, Len(buf)), pos |-> pos]
  ELSE IF fault
    THEN [line |-> buf, err |-> "EIO", buf |-> <<>>, pos |-> pos]
  ELSE LET data == buf \o Unread(ino, pos)
           npos == IF pos >= Len(files[ino]) THEN pos ELSE Len(files[ino])
       IN IF NewlineAt(data) # 0
            THEN [line |-> SubSeq(data, 1, NewlineAt(data)), err |-> "nil",
                  buf |-> SubSeq(data, NewlineAt(data) + 1, Len(data)),
                  pos |-> npos]
            ELSE [line |-> data, err |-> "EOF", buf |-> <<>>, pos |-> npos]

\* Tailer.sendErr: the Errors channel after the non-blocking send.
sendErr(ch) == IF Len(ch) < ErrorsCap THEN Append(ch, <<"err">>) ELSE ch

\* openFile always starting at the beginning of the file.
openOffsetStart(hist, fsize) == 0

\* openFile: the start offset, given the size of the file.
openOffset(hist, fsize) == IF hist THEN 0 ELSE fsize

\* run, after sendErr: the worker returns.
ErrExit ==
  /\ Errors' = sendErr(Errors)
  /\ errsSent' = IF Len(Errors) < ErrorsCap THEN errsSent + 1 ELSE errsSent
  /\ errsDropped' = IF Len(Errors) < ErrorsCap THEN errsDropped
                    ELSE errsDropped + 1
  /\ tpc' = "exit"

\* run: the first openFile.
TailOpen ==
  /\ Alive
  /\ tpc = "open"
  /\ IF pathIno = 0
       THEN /\ ErrExit
            /\ startInfo' = [startInfo EXCEPT !.failed = TRUE]
            /\ UNCHANGED <<tf, tpos, rbuf, offset, epoch>>
       ELSE /\ tf' = pathIno
            /\ offset' = openOffset(history, Len(files[pathIno]))
            /\ tpos' = openOffset(history, Len(files[pathIno]))
            /\ rbuf' = <<>>
            /\ epoch' = epoch + 1
            /\ tpc' = "read"
            /\ startInfo' = [startInfo EXCEPT !.opened = TRUE,
                                              !.size = Len(files[pathIno])]
            /\ UNCHANGED <<Errors, errsSent, errsDropped>>
  /\ UNCHANGED <<fnVars, subnets, uiVars, done, files, pathIno, writes, rotations, history, tline, Lines,
                 fpc, fmsg, processed, sent>>

\* run reporting a read error and reading on instead of returning.
AfterLineKeepsReading(e, pos) ==
  CASE e = "EOF" -> /\ offset' = pos
                    /\ tpc' = "wait"
                    /\ UNCHANGED <<Errors, errsSent, errsDropped>>
    [] e = "EIO" -> /\ Errors' = sendErr(Errors)
                    /\ errsSent' = IF Len(Errors) < ErrorsCap
                                     THEN errsSent + 1 ELSE errsSent
                    /\ errsDropped' = IF Len(Errors) < ErrorsCap
                                        THEN errsDropped ELSE errsDropped + 1
                    /\ tpc' = "read"
                    /\ UNCHANGED offset
    [] OTHER -> /\ tpc' = "read"
                /\ UNCHANGED <<offset, Errors, errsSent, errsDropped>>

\* run, after a read that found no line to send, or after the send: on EOF the
\* drain ends, offset becomes the position of f, and the worker waits; on
\* another error it reports and returns; otherwise it reads again.
AfterLine(e, pos) ==
  CASE e = "EOF" -> /\ offset' = pos
                    /\ tpc' = "wait"
                    /\ UNCHANGED <<Errors, errsSent, errsDropped>>
    [] e = "EIO" -> /\ ErrExit
                    /\ UNCHANGED offset
    [] OTHER -> /\ tpc' = "read"
                /\ UNCHANGED <<offset, Errors, errsSent, errsDropped>>

\* run: one ReadString of the drain loop and the strip of its line.
TailRead(fault) ==
  /\ Alive
  /\ tpc = "read"
  /\ LET r == ReadString(rbuf, tf, tpos, fault)
         l == StripLen(r.line)
     IN /\ rbuf' = r.buf
        /\ tpos' = r.pos
        /\ startInfo' = IF startInfo.readFrom = -1
                          THEN [startInfo EXCEPT !.readFrom = tpos - Len(rbuf)]
                          ELSE startInfo
        /\ IF Len(r.line) > 0 /\ l > 0
             THEN /\ tline' = [text |-> SubSeq(r.line, 1, l), err |-> r.err,
                               from |-> tpos - Len(rbuf),
                               complete |-> r.err = "nil"]
                  /\ tpc' = "send"
                  /\ UNCHANGED <<offset, Errors, errsSent, errsDropped>>
             ELSE /\ tline' = NoLine
                  /\ AfterLine(r.err, r.pos)
  /\ UNCHANGED <<fnVars, subnets, uiVars, done, files, pathIno, writes, rotations, history, tf, Lines, fpc,
                 fmsg, processed, sent, epoch>>

\* run: the select that sends the line, when Lines has room.
TailSend ==
  /\ Alive
  /\ tpc = "send"
  /\ Len(Lines) < LinesCap
  /\ Lines' = Append(Lines, tline.text)
  /\ sent' = Append(sent, [text |-> tline.text, complete |-> tline.complete,
                           from |-> tline.from, epoch |-> epoch,
                           afterErr |-> errsSent > 0])
  /\ tline' = NoLine
  /\ AfterLine(tline.err, tpos)
  /\ UNCHANGED <<fnVars, subnets, uiVars, done, files, pathIno, writes, rotations, history, tf, tpos, rbuf,
                 fpc, fmsg, processed, epoch, startInfo>>

\* run with the done case in the wait alone: the send has no way out.
TailStoppedWaitOnly ==
  /\ Alive
  /\ tpc = "wait"
  /\ done = "closed"
  /\ tpc' = "exit"
  /\ UNCHANGED <<fnVars, subnets, uiVars, done, files, pathIno, writes, rotations, history, tf, tpos, rbuf,
                 tline, offset, Lines, Errors, fpc, fmsg, processed, sent,
                 errsSent, errsDropped, epoch, startInfo>>

\* run: a select that finds done closed, while sending or while waiting.
TailStopped ==
  /\ Alive
  /\ tpc \in {"send", "wait"}
  /\ done = "closed"
  /\ tpc' = "exit"
  /\ UNCHANGED <<fnVars, subnets, uiVars, done, files, pathIno, writes, rotations, history, tf, tpos, rbuf,
                 tline, offset, Lines, Errors, fpc, fmsg, processed, sent,
                 errsSent, errsDropped, epoch, startInfo>>

\* run: the poll interval ends.
TailWake ==
  /\ Alive
  /\ tpc = "wait"
  /\ tpc' = "stat"
  /\ UNCHANGED <<fnVars, subnets, uiVars, done, files, pathIno, writes, rotations, history, tf, tpos, rbuf,
                 tline, offset, Lines, Errors, fpc, fmsg, processed, sent,
                 errsSent, errsDropped, epoch, startInfo>>

\* The rotation test with <= in place of <.
rotatedOrSame(ino, off) == ino # 0 /\ Len(files[ino]) <= off

\* run: whether the os.Stat of the path shows a rotation.
rotated(ino, off) == ino # 0 /\ Len(files[ino]) < off

\* run: os.Stat of the path; on a rotation f is closed, otherwise the reader
\* is repositioned at offset.
TailStat ==
  /\ Alive
  /\ tpc = "stat"
  /\ IF rotated(pathIno, offset)
       THEN /\ tpc' = "reopen"
            /\ UNCHANGED <<tpos, rbuf>>
       ELSE /\ tpos' = offset
            /\ rbuf' = <<>>
            /\ tpc' = "read"
  /\ UNCHANGED <<fnVars, subnets, uiVars, done, files, pathIno, writes, rotations, history, tf, tline,
                 offset, Lines, Errors, fpc, fmsg, processed, sent, errsSent,
                 errsDropped, epoch, startInfo>>

\* run: openFile(path, true) after a rotation.
TailReopen ==
  /\ Alive
  /\ tpc = "reopen"
  /\ IF pathIno = 0
       THEN /\ ErrExit
            /\ UNCHANGED <<tf, tpos, rbuf, offset, epoch>>
       ELSE /\ tf' = pathIno
            /\ offset' = openOffset(TRUE, Len(files[pathIno]))
            /\ tpos' = openOffset(TRUE, Len(files[pathIno]))
            /\ rbuf' = <<>>
            /\ epoch' = epoch + 1
            /\ tpc' = "read"
            /\ UNCHANGED <<Errors, errsSent, errsDropped>>
  /\ UNCHANGED <<fnVars, subnets, uiVars, done, files, pathIno, writes, rotations, history, tline, Lines,
                 fpc, fmsg, processed, sent, startInfo>>

\* ---- main: the forwarding goroutine, and the event loop's receipt ----

\* A receive that takes the newest value of the channel.
recvLineNewest(ch) ==
  [msg |-> ch[Len(ch)], rest |-> SubSeq(ch, 1, Len(ch) - 1)]

\* What the forwarder's receive takes from the Lines channel, and what stays.
recvLine(ch) == [msg |-> Head(ch), rest |-> Tail(ch)]

\* The select, case line := <-t.Lines.
FwdTakeLine ==
  /\ Alive
  /\ fpc = "select"
  /\ Len(Lines) > 0
  /\ fmsg' = recvLine(Lines).msg
  /\ Lines' = recvLine(Lines).rest
  /\ fpc' = "sendLine"
  /\ UNCHANGED <<fnVars, subnets, uiVars, done, files, pathIno, writes, rotations, history, tpc, tf, tpos,
                 rbuf, tline, offset, Errors, processed, sent, errsSent,
                 errsDropped, epoch, startInfo>>

\* The select, case err := <-t.Errors.
FwdTakeErr ==
  /\ Alive
  /\ fpc = "select"
  /\ Len(Errors) > 0
  /\ fmsg' = Head(Errors)
  /\ Errors' = Tail(Errors)
  /\ fpc' = "sendErr"
  /\ UNCHANGED <<fnVars, subnets, uiVars, done, files, pathIno, writes, rotations, history, tpc, tf, tpos,
                 rbuf, tline, offset, Lines, processed, sent, errsSent,
                 errsDropped, epoch, startInfo>>

\* p.Send returns: the event loop took the message (Update runs on it), or the
\* program has ended and the message is dropped.  After an error the
\* forwarder returns.
FwdSend ==
  /\ Alive
  /\ fpc \in {"sendLine", "sendErr"}
  /\ processed' =
       IF running = "running"
         THEN Append(processed, [kind |-> IF fpc = "sendLine" THEN "line"
                                          ELSE "err",
                                 msg |-> fmsg])
         ELSE processed
  /\ fmsg' = <<>>
  /\ fpc' = IF fpc = "sendLine" THEN "select" ELSE "done"
  /\ UNCHANGED <<fnVars, subnets, uiVars, done, files, pathIno, writes, rotations, history, tpc, tf, tpos,
                 rbuf, tline, offset, Lines, Errors, sent, errsSent,
                 errsDropped, epoch, startInfo>>

(***************************************************************************)
(* Spec: the event loop.                                                   *)
(***************************************************************************)
vars == <<uiVars, done, tailVars, fnVars, subnets>>

\* No function is called on its own.
NoCall == [fn |-> "none"]

Init ==
  /\ UIInit
  /\ subnets = SubnetIPs
  /\ done = "open"
  /\ TailInit
  /\ fnArgs = NoCall
  /\ fnRes = NoCall

\* The event loop is followed from one start of the tailer: the flag and the
\* file are not read by Update.
LoopInit ==
  /\ Init
  /\ ~history
  /\ pathIno = 1
  /\ files = <<<<"o", "\n">>>>

Next ==
  \/ \E sz \in WindowSizes : WindowSize(sz)
  \/ TailerErr
  \/ \E line \in LogLines : NewLine(line)
  \/ \E ip \in IPs, info \in WhoisResults : Whois(ip, info)
  \/ OtherMsg
  \/ \E key \in QuitKeys : KeyQuit(key)
  \/ QuitMsg
  \/ \E key \in Keys : KeyDetail(key)
  \/ \E key \in Keys : KeySearch(key)
  \/ \E key \in TabKeys : KeyTab(key)
  \/ \E key \in MoveKeys : KeyMove(key)
  \/ KeyEnter
  \/ \E key \in ToggleKeys : KeyToggle(key)
  \/ KeySlash
  \/ \E key \in {"esc", "c"} : KeyClear(key)
  \/ \E key \in Keys : KeyIgnored(key)


Spec == LoopInit /\ [][Next]_vars

(***************************************************************************)
(* LookupSpec: lines arrive, the cursor moves, the overlay opens and       *)
(* closes, lookups run and report, the program quits.  whois.Lookup ends   *)
(* within its 10 second timeout and the runtime passes the message of a    *)
(* finished command to Update while the event loop runs: the delivery of a *)
(* running lookup's result is weakly fair.                                 *)
(***************************************************************************)
LookupNext ==
  \/ \E line \in LogLines : NewLine(line)
  \/ \E key \in MoveKeys : KeyMove(key)
  \/ KeyEnter
  \/ \E key \in Keys : KeyDetail(key)
  \/ \E ip \in IPs, info \in WhoisResults : Whois(ip, info)
  \/ \E key \in QuitKeys : KeyQuit(key)
  \/ QuitMsg

LookupSpec ==
  /\ LoopInit
  /\ [][LookupNext]_vars
  /\ WF_vars(\E ip \in IPs, info \in WhoisResults : Whois(ip, info))

(***************************************************************************)
(* FnSpec: functions applied on their own.                                 *)
(***************************************************************************)
\* The filters matchesFilter is applied under: each dimension unset or set;
\* the search texts match by source only, by destination only, by a letter
\* of the other case.
FnSubstrs == {sEmpty, <<"1">>, <<"F">>, <<"e">>}
FnFilters ==
  [Action : {sEmpty, sDROP, sACCEPT}, Proto : {sEmpty, sTCP, sUDP},
   IPSubstr : FnSubstrs]

\* The collections and the cursors applyFilters is applied to: the cursor is
\* anywhere from -1 (pgdown on an empty view) to past the end.
FnAlls == UNION {[1..n -> FnEntries] : n \in 0..MaxFnAll}
FnCursors == (0 - 1)..(MaxFnAll + 1)

\* The lines ParseLine is applied to: the tokens of a TCP packet in the order
\* the kernel writes them, each of them there or not, after each kind of
\* leading token, with the kernel: marker and without; the lines of the
\* event loop; and a line that names the destination port before the source
\* port.
KernelToks ==
  <<Tok("SRC", ipExt), Tok("DST", ipInt), Tok("LEN", <<"6", "0">>),
    Tok("TTL", <<"5", "0">>), Tok("PROTO", <<"t", "c", "p">>),
    Tok("SPT", <<"9">>), Tok("DPT", <<"2", "2">>)>>

LineDptFirst ==
  [id |-> "dptfirst", ts |-> TsSyslog, host |-> "fw", marker |-> TRUE,
   prefix |-> sDROP, in |-> "eth1", out |-> "",
   toks |-> <<Tok("SRC", ipExt), Tok("DST", ipInt), Tok("PROTO", sUDP),
              Tok("DPT", <<"5", "3">>), Tok("SPT", <<"9">>)>>]

FnLines ==
  {[id |-> "kernel", ts |-> ts, host |-> "fw", marker |-> mk,
    prefix |-> <<"[", "L", "o", "w">>, in |-> "eth0", out |-> "",
    toks |-> SelectSeq(KernelToks, LAMBDA t : t.k \in keys)] :
     ts \in {TsSyslog, TsIso, TsBad, TsNone}, mk \in BOOLEAN,
     keys \in SUBSET {KernelToks[i].k : i \in 1..Len(KernelToks)}}
    \cup LogLines \cup {LineReject, LineDptFirst}

\* The prefixes Action is applied to: none, one keyword in upper, lower and
\* mixed case, two keywords in both orders, a keyword cut short, no keyword.
ActionPrefixes ==
  {sEmpty, sDROP, <<"u", "f", "w", " ", "b", "l", "o", "c", "k">>,
   <<"a", "c", "c", "e", "p", "t">>, <<"R", "e", "j", "e", "c", "t">>,
   <<"a", "c", "c", "e", "p", "t", " ", "D", "r", "o", "p">>,
   <<"D", "R", "O", "P", "-", "A", "C", "C", "E", "P", "T">>,
   <<"r", "e", "j", "e", "c", "t", " ", "a", "c", "c", "e", "p", "t">>,
   <<"R", "e", "j", "e", "c", "t", "B", "l", "o", "c", "k">>,
   <<"d", "r", "o", " ", "p">>, <<"L", "o", "w">>, <<"A", "C", "C", "E", "P">>}

ActionEntries ==
  {[e EXCEPT !.Prefix = p] : e \in FnEntries, p \in ActionPrefixes}

\* The PROTO= tokens normalizeProto is applied to: numbers of the table,
\* a number the table does not have, names in lower, upper and mixed case.
ProtoToks ==
  {<<"6">>, <<"t", "c", "p">>, sTCP, <<"T", "c", "p">>, <<"1", "7">>,
   <<"u", "d", "p">>, <<"1">>, <<"4">>, <<"i", "p", "v", "4">>,
   <<"9", "9", "9">>}

\* A line with the token PROTO=p.
ProtoLine(p) ==
  [id |-> "proto", ts |-> TsIso, host |-> "fw", marker |-> TRUE,
   prefix |-> sDROP, in |-> "eth0", out |-> "",
   toks |-> <<Tok("SRC", ipExt), Tok("DST", ipInt), Tok("PROTO", p)>>]

\* The strings Categorize is applied to: the addresses of the lines, and
\* strings net.ParseIP rejects. The snapshots classifier.New can have taken:
\* none (net.Interfaces failed), a subnet with the internal address, one
\* more that reaches into the multicast range, one with the external address.
CatStrings == ParsableIPs \cup {ipUpper, sEmpty, <<"a">>}
Snapshots == {{}, {ipInt}, SubnetIPs, {ipInt, ipExt}}

FnCalls ==
  {[fn |-> "Action", e |-> e] : e \in ActionEntries}
    \cup
  {[fn |-> "Categorize", ip |-> ip] : ip \in CatStrings}
    \cup
  {[fn |-> "normalizeProto", p |-> p] : p \in ProtoToks}
    \cup
  {[fn |-> "matchesFilter", f |-> f, e |-> e] : f \in FnFilters, e \in FnEntries}
    \cup
  {[fn |-> "ParseLine", line |-> l] : l \in FnLines}
    \cup
  {[fn |-> "applyFilters", all |-> a, f |-> f, cursor |-> c] :
     a \in FnAlls, f \in FnFilters, c \in FnCursors}

FnInit ==
  /\ UIInit
  /\ done = "open"
  /\ TailInit
  /\ ~history
  /\ pathIno = 1
  /\ files = <<<<"o", "\n">>>>
  /\ fnArgs \in FnCalls
  /\ fnRes = NoCall
  /\ subnets \in IF fnArgs.fn = "Categorize" THEN Snapshots ELSE {SubnetIPs}

\* m.matchesFilter(e) under m.filters = f.
CallMatchesFilter ==
  /\ fnArgs.fn = "matchesFilter"
  /\ fnRes = NoCall
  /\ fnRes' = [fn |-> "matchesFilter",
               out |-> matchesFilter(fnArgs.f, fnArgs.e)]
  /\ UNCHANGED <<fnArgs, subnets, uiVars, done, tailVars>>

\* m.applyFilters(), and m.applyFilters() once more on what the first call
\* left: the result keeps what the first call returned.
CallApplyFilters ==
  /\ fnArgs.fn = "applyFilters"
  /\ fnRes = NoCall
  /\ fnRes' = [fn |-> "applyFilters", calls |-> 1,
               now |-> applyFiltersOf(fnArgs.all, fnArgs.f, fnArgs.cursor)]
  /\ UNCHANGED <<fnArgs, subnets, uiVars, done, tailVars>>

CallApplyFiltersAgain ==
  /\ fnRes.fn = "applyFilters"
  /\ fnRes.calls = 1
  /\ fnRes' = [fn |-> "applyFilters", calls |-> 2, first |-> fnRes.now,
               now |-> applyFiltersOf(fnArgs.all, fnArgs.f, fnRes.now.cursor)]
  /\ UNCHANGED <<fnArgs, subnets, uiVars, done, tailVars>>

\* e.Action().
CallAction ==
  /\ fnArgs.fn = "Action"
  /\ fnRes = NoCall
  /\ fnRes' = [fn |-> "Action", out |-> Action(fnArgs.e)]
  /\ UNCHANGED <<fnArgs, subnets, uiVars, done, tailVars>>

\* c.Categorize(ip).
CallCategorize ==
  /\ fnArgs.fn = "Categorize"
  /\ fnRes = NoCall
  /\ fnRes' = [fn |-> "Categorize", out |-> Categorize(fnArgs.ip)]
  /\ UNCHANGED <<fnArgs, subnets, uiVars, done, tailVars>>

\* normalizeProto(p); the entry ParseLine makes of a line with PROTO=p; and
\* matchesFilter of that entry under the filters that the key t leaves.
CallNormalizeProto ==
  /\ fnArgs.fn = "normalizeProto"
  /\ fnRes = NoCall
  /\ fnRes' =
       LET parsed == ParseLine(ProtoLine(fnArgs.p), LoopYear) IN
       [fn |-> "normalizeProto", out |-> normalizeProto(fnArgs.p),
        parsed |-> parsed,
        tcp |-> matchesFilter(toggleFilter(NoFilters, "t"), parsed.entry)]
  /\ UNCHANGED <<fnArgs, subnets, uiVars, done, tailVars>>

\* ParseLine(line) while the clock shows the year now, and ParseLine(line)
\* once more, later: the result keeps what the first call returned.
CallParseLine ==
  /\ fnArgs.fn = "ParseLine"
  /\ fnRes = NoCall
  /\ \E now \in Years :
       fnRes' = [fn |-> "ParseLine", calls |-> 1, now |-> now,
                 out |-> ParseLine(fnArgs.line, now)]
  /\ UNCHANGED <<fnArgs, subnets, uiVars, done, tailVars>>

CallParseLineAgain ==
  /\ fnRes.fn = "ParseLine"
  /\ fnRes.calls = 1
  /\ \E now \in Years :
       /\ now >= fnRes.now
       /\ fnRes' = [fn |-> "ParseLine", calls |-> 2, now |-> now,
                    out |-> ParseLine(fnArgs.line, now),
                    firstNow |-> fnRes.now, first |-> fnRes.out]
  /\ UNCHANGED <<fnArgs, subnets, uiVars, done, tailVars>>

FnNext ==
  \/ CallMatchesFilter
  \/ CallParseLine
  \/ CallParseLineAgain
  \/ CallAction
  \/ CallNormalizeProto
  \/ CallCategorize
  \/ CallApplyFilters
  \/ CallApplyFiltersAgain

FnSpec == FnInit /\ [][FnNext]_vars

(***************************************************************************)
(* TailSpec: the tailer, the file, the forwarder; of the event loop, the   *)
(* quit key and the end of the program.                                    *)
(***************************************************************************)
TailNext ==
  \/ \E b \in WriteBytes : WriteByte(b)
  \/ Truncate
  \/ Replace
  \/ Remove
  \/ TailOpen
  \/ \E fault \in BOOLEAN : TailRead(fault)
  \/ TailSend
  \/ TailStopped
  \/ TailWake
  \/ TailStat
  \/ TailReopen
  \/ FwdTakeLine
  \/ FwdTakeErr
  \/ FwdSend
  \/ \E key \in QuitKeys : KeyQuit(key)
  \/ QuitMsg

TailSpec == Init /\ [][TailNext]_vars

(***************************************************************************)
(* TailFairSpec: TailSpec with the worker goroutine scheduled as long as   *)
(* it can take a step, and with its selects not passing over the closed    *)
(* done channel for ever: a select chooses at random among the cases that  *)
(* are ready.  Nothing is assumed of the forwarder, the writer or the      *)
(* keys.                                                                   *)
(***************************************************************************)
\* A step of the goroutine of Tailer.run.
TailWorker ==
  \/ TailOpen
  \/ \E fault \in BOOLEAN : TailRead(fault)
  \/ TailSend
  \/ TailStopped
  \/ TailWake
  \/ TailStat
  \/ TailReopen

TailFairSpec ==
  /\ Init
  /\ [][TailNext]_vars
  /\ WF_vars(TailWorker)
  /\ SF_vars(TailStopped)

(***************************************************************************)
(* Properties of the event loop (Spec).                                    *)
(***************************************************************************)

\* C1: in every reachable state the filtered view is exactly the entries of
\* all that satisfy the active filters, in the order of all: the append of
\* addEntry and the rescan of applyFilters agree.
C1_FilteredIsFilterOfAll ==
  filtered = SelectSeq(all, LAMBDA e : matchesFilter(filters, e))

\* An entry arrived while a filter that rejects some entry was set.
C1_Witness ==
  /\ Len(all) = MaxAll
  /\ filters # NoFilters
  /\ Len(filtered) > 0
  /\ Len(filtered) < Len(all)

\* C2: stats.Total is the number of entries ever stored in all.
C2_TotalIsLenAll == stats.Total = Len(all)

\* Entries were stored, one of them hidden by the filters.
C2_Witness ==
  /\ stats.Total >= 2
  /\ Len(filtered) < Len(all)

\* C3: when addEntry stores an entry that passes the filters, the cursor moves
\* to the new last index if and only if the detail overlay is closed and the
\* cursor was at the previous last index; in every other case addEntry leaves
\* the cursor where it was.
C3_AutoFollow ==
  [][Len(all') = Len(all) + 1 =>
       LET e == all'[Len(all')] IN
       IF matchesFilter(filters, e) /\ ~detailOpen
          /\ cursor = Len(filtered) - 1
         THEN /\ Len(filtered') = Len(filtered) + 1
              /\ cursor' = Len(filtered') - 1
         ELSE cursor' = cursor]_vars

\* The cursor followed two arrivals to the end of a filtered view.
C3_Witness ==
  /\ Len(all) = MaxAll
  /\ Len(filtered) = 2
  /\ cursor = 1
  /\ filters.Action # sEmpty
  /\ ~detailOpen

\* C4: for any source IP at most one whois lookup is ever started.
C4_OneLookupPerIP == \A ip \in IPs : whoisIssued[ip] <= 1

\* The overlay is open on an entry whose address was looked up before and is
\* cached.
C4_Witness ==
  \E ip \in IPs :
    /\ whoisIssued[ip] = 1
    /\ ip \in DOMAIN whoisCache
    /\ detailOpen
    /\ detailEntry.Src = ip

(***************************************************************************)
(* Properties of the tailer and the forwarder (TailSpec).                  *)
(***************************************************************************)

\* C5: the tailer never emits a line whose terminating newline is not yet in
\* the file.
C5_OnlyCompleteLines == \A i \in 1..Len(sent) : sent[i].complete

\* C6: a poll that finds the file at the path smaller than the offset goes on
\* to reopen the path, and only such a poll does; a reopen that succeeds reads
\* the file now at the path from offset 0, whatever history is, and sends no
\* error; the lines of one open file are emitted in the order of the file.
C6_EmittedInOrder ==
  \A i, j \in 1..Len(sent) :
    i < j => \/ sent[i].epoch < sent[j].epoch
             \/ sent[i].epoch = sent[j].epoch /\ sent[i].from < sent[j].from

C6_PollStep ==
  (tpc = "stat" /\ tpc' # "stat") =>
    /\ (tpc' = "reopen") <=> (pathIno # 0 /\ Len(files[pathIno]) < offset)
    /\ errsSent' = errsSent

C6_ReopenStep ==
  (tpc = "reopen" /\ tpc' # "reopen" /\ pathIno # 0) =>
    /\ tf' = pathIno
    /\ tpos' = 0
    /\ offset' = 0
    /\ rbuf' = <<>>
    /\ tpc' = "read"
    /\ errsSent' = errsSent
    /\ Errors' = Errors

C6_RotationReopensFromStart ==
  /\ []C6_EmittedInOrder
  /\ [][C6_PollStep /\ C6_ReopenStep]_vars

\* Started without history, the tailer reopened after a rotation and emitted
\* a line of the new file from its start.
C6_Witness ==
  /\ ~history
  /\ epoch = 2
  /\ errsSent = 0
  /\ \E i \in 1..Len(sent) : sent[i].epoch = 2 /\ sent[i].from = 0

\* C7: at most one value is ever sent on Errors, the send never finds the
\* channel full, the worker has returned once it is sent, and no line is sent
\* on Lines after it.
C7_OneTerminalError ==
  /\ errsSent <= 1
  /\ errsDropped = 0
  /\ errsSent = 1 => tpc = "exit"
  /\ \A i \in 1..Len(sent) : ~sent[i].afterErr

\* A read error ended a worker that had emitted a line.
C7_Witness ==
  /\ errsSent = 1
  /\ tpc = "exit"
  /\ Len(sent) > 0
  /\ startInfo.opened

\* C8: a poll whose stat of the path fails sends the terminal error and the
\* worker returns.
C8_StatFailureIsTerminal ==
  [][(tpc = "stat" /\ tpc' # "stat" /\ pathIno = 0) =>
       (tpc' = "exit" /\ errsSent' = errsSent + 1)]_vars

\* The lines of the messages the event loop processed.
ProcessedLines ==
  LET ls == SelectSeq(processed, LAMBDA m : m.kind = "line")
  IN [i \in 1..Len(ls) |-> ls[i].msg]

\* The lines sent on Lines.
SentLines == [i \in 1..Len(sent) |-> sent[i].text]

\* The line the forwarder holds between its receive and p.Send.
InHand == IF fpc = "sendLine" THEN <<fmsg>> ELSE <<>>

\* C9: the lines the event loop processes are the lines sent on Lines, in the
\* same order and each once: what was processed, what the forwarder holds and
\* what is in the channel make up what was sent, as long as the program runs,
\* and what was processed is always a prefix of what was sent.
C9_ProcessedIsSent ==
  /\ IsPrefix(ProcessedLines, SentLines)
  /\ running = "running" => SentLines = ProcessedLines \o InHand \o Lines

\* Two different lines went through the channel and were processed.
C9_Witness ==
  /\ Len(ProcessedLines) >= 2
  /\ ProcessedLines[1] # ProcessedLines[2]

\* C10: without history the first read starts at the size the file had at the
\* open, so that no byte the file held before is emitted; with history it
\* starts at 0; when the first open fails there is one error and no line.
C10_StartOffset ==
  /\ startInfo.readFrom # -1 =>
       startInfo.readFrom = (IF history THEN 0 ELSE startInfo.size)
  /\ ~history => \A i \in 1..Len(sent) : ~Contains(sent[i].text, <<"o">>)
  /\ startInfo.failed =>
       /\ errsSent = 1
       /\ sent = <<>>
       /\ Lines = <<>>
       /\ tpc = "exit"

\* Started without history on a file that had content, the tailer emitted a
\* line appended afterwards.
C10_Witness ==
  /\ ~history
  /\ startInfo.size > 0
  /\ epoch = 1
  /\ Len(sent) > 0


\* C11: Update on a NewLineMsg whose line does not parse changes nothing of
\* the model: all, the view, the counters, the cursor, the filters, the
\* search and overlay modes, the tab, the whois maps and the error keep their
\* values, and the error is not set.
C11_UnparsedLineIsNoOp ==
  [][dropped' # dropped =>
       UNCHANGED <<all, filtered, cursor, stats, tab, filters, searching,
                   searchInput, detailOpen, detailEntry, size, whoisCache,
                   whoisPending, err, running>>]_vars

\* A line was skipped while entries were stored, a filter was set and the
\* search input was open; no error is set.
C11_Witness ==
  /\ dropped > 0
  /\ Len(all) > 0
  /\ filters # NoFilters
  /\ searching
  /\ err = "nil"

(***************************************************************************)
(* Properties of the functions (FnSpec).                                   *)
(***************************************************************************)

\* Whether sub occurs in s, letters compared without regard to case.
OccursFolded(s, sub) ==
  \E i \in 0..(Len(s) - Len(sub)) :
    \A j \in 1..Len(sub) : UpperCh(s[i + j]) = UpperCh(sub[j])

\* C12: matchesFilter(e) is true exactly when the action filter is empty or
\* equals e.Action(), and the protocol filter is empty or equals e.Proto, and
\* the substring filter is empty or occurs, whatever the case of the letters,
\* in e.Src or in e.Dst.
C12_MatchesFilterIsConjunction ==
  fnRes.fn = "matchesFilter" =>
    LET f == fnArgs.f
        e == fnArgs.e
    IN fnRes.out <=>
         /\ f.Action = sEmpty \/ Action(e) = f.Action
         /\ f.Proto = sEmpty \/ e.Proto = f.Proto
         /\ \/ f.IPSubstr = sEmpty
            \/ OccursFolded(e.Src, f.IPSubstr)
            \/ OccursFolded(e.Dst, f.IPSubstr)

\* With the three filters set, an entry matched through its destination only.
C12_Witness ==
  /\ fnRes.fn = "matchesFilter"
  /\ fnRes.out
  /\ fnArgs.f.Action # sEmpty
  /\ fnArgs.f.Proto # sEmpty
  /\ fnArgs.f.IPSubstr # sEmpty
  /\ ~OccursFolded(fnArgs.e.Src, fnArgs.f.IPSubstr)

\* The value a quick-filter key stands for, and whether its dimension is the
\* action.
QuickValue(key) ==
  CASE key = "d" -> sDROP
    [] key = "a" -> sACCEPT
    [] key = "t" -> sTCP
    [] key = "u" -> sUDP

QuickOnAction(key) == key \in {"d", "a"}

\* The value of a dimension after a key for the value v is pressed on it.
Toggled(current, v) == IF current = v THEN sEmpty ELSE v

\* C13: d, a, t or u pressed while browsing the Logs tab sets its dimension to
\* its value when the dimension holds anything else, clears the dimension when
\* it holds that value, and leaves the other dimension and the substring
\* filter as they were.
C13_QuickFiltersToggle ==
  [][\A key \in ToggleKeys :
       KeyToggle(key) =>
         /\ filters'.Action = IF QuickOnAction(key)
                                THEN Toggled(filters.Action, QuickValue(key))
                                ELSE filters.Action
         /\ filters'.Proto = IF QuickOnAction(key) THEN filters.Proto
                             ELSE Toggled(filters.Proto, QuickValue(key))
         /\ filters'.IPSubstr = filters.IPSubstr]_vars

\* Both dimensions were toggled while a substring filter was set; the action
\* dimension holds the value of the second key of its dimension.
C13_Witness ==
  /\ filters.Action = sACCEPT
  /\ filters.Proto = sUDP
  /\ filters.IPSubstr # sEmpty
  /\ Len(filtered) > 0
  /\ Browsing

\* C14: applyFilters called a second time, all and the filters being what they
\* were, leaves the view and the cursor the first call produced.
C14_ApplyFiltersIdempotent ==
  (fnRes.fn = "applyFilters" /\ fnRes.calls = 2) => fnRes.now = fnRes.first

\* The first call hid an entry and moved the cursor; the second was made.
C14_Witness ==
  /\ fnRes.fn = "applyFilters"
  /\ fnRes.calls = 2
  /\ fnRes.first.cursor # fnArgs.cursor
  /\ Len(fnRes.first.filtered) > 0
  /\ Len(fnRes.first.filtered) < Len(fnArgs.all)

\* Whether the cursor c is where applyFilters wants it for a view of n entries.
CursorInView(c, n) == IF n > 0 THEN 0 <= c /\ c <= n - 1 ELSE c = 0

\* C15: after applyFilters the cursor is within 0..len(filtered)-1 when the
\* view has entries and 0 when it has none, and it is the cursor of before
\* whenever that one was already so.
C15_ApplyFiltersClampsCursor ==
  (fnRes.fn = "applyFilters" /\ fnRes.calls = 1) =>
    LET n == Len(fnRes.now.filtered) IN
    /\ CursorInView(fnRes.now.cursor, n)
    /\ CursorInView(fnArgs.cursor, n) => fnRes.now.cursor = fnArgs.cursor

\* A cursor past the end of a view with entries was brought to its last index.
C15_Witness ==
  /\ fnRes.fn = "applyFilters"
  /\ fnRes.calls = 1
  /\ Len(fnRes.now.filtered) > 0
  /\ fnArgs.cursor >= Len(fnRes.now.filtered)
  /\ fnRes.now.cursor = Len(fnRes.now.filtered) - 1

\* C16: the step that opens the detail overlay sets detailEntry to the entry
\* under the cursor, and no step (a line arriving, a whois result, a window
\* size, a key) changes detailEntry while the overlay stays open.
C16_DetailSnapshot ==
  [][/\ (~detailOpen /\ detailOpen') =>
          /\ cursor >= 0
          /\ cursor < Len(filtered)
          /\ detailEntry' = filtered[cursor + 1]
     /\ (detailOpen /\ detailOpen') => detailEntry' = detailEntry]_vars

\* The overlay is open on an entry that is no longer the newest of the view,
\* and a window size and a whois result have come in.
C16_Witness ==
  /\ detailOpen
  /\ cursor < Len(filtered) - 1
  /\ detailEntry = filtered[cursor + 1]
  /\ detailEntry # filtered[Len(filtered)]
  /\ size # <<0, 0>>
  /\ detailEntry.Src \in DOMAIN whoisCache

\* C17: the step that opens the detail overlay starts a lookup if and only if
\* the source of the snapshot is categorized External and is neither cached
\* nor pending; an address categorized otherwise never has a lookup started
\* and is never pending or cached.
C17_OpenStep ==
  (~detailOpen /\ detailOpen') =>
    LET src == detailEntry'.Src IN
    /\ whoisIssued' # whoisIssued <=>
         /\ Categorize(src) = CatExternal
         /\ src \notin DOMAIN whoisCache
         /\ src \notin whoisPending
    /\ whoisIssued' # whoisIssued =>
         /\ whoisIssued' = [whoisIssued EXCEPT ![src] = @ + 1]
         /\ whoisPending' = whoisPending \cup {src}

C17_NotExternalStaysAbsent ==
  \A ip \in IPs :
    Categorize(ip) # CatExternal =>
      /\ whoisIssued[ip] = 0
      /\ ip \notin whoisPending
      /\ ip \notin DOMAIN whoisCache

C18_NeverPendingAndCached ==
  \A ip \in IPs : ~(ip \in whoisPending /\ ip \in DOMAIN whoisCache)

C18_ResultStep ==
  \A ip \in IPs :
    whoisRunning'[ip] < whoisRunning[ip] =>
      /\ ip \in DOMAIN whoisCache'
      /\ whoisCache'[ip] \in WhoisResults
      /\ ip \notin whoisPending'
      /\ (\E info \in WhoisResults : Whois(ip, info))
      /\ Whois(ip, EmptyResult) => whoisCache'[ip] = EmptyResult

C18_EnrichmentTriState ==
  /\ []C18_NeverPendingAndCached
  /\ [][C18_ResultStep]_vars

\* The all-empty result of a lookup is in the cache and its address is not
\* pending.
C18_Witness ==
  \E ip \in IPs :
    /\ ip \in DOMAIN whoisCache
    /\ whoisCache[ip] = EmptyResult
    /\ ip \notin whoisPending
    /\ whoisIssued[ip] = 1

\* C19: an address that is cached stays cached with the same result, the
\* all-empty one included, through every step, and no step starts a lookup
\* for it.
C19_CacheEntryIsFinal ==
  [][\A ip \in DOMAIN whoisCache :
       /\ ip \in DOMAIN whoisCache'
       /\ whoisCache'[ip] = whoisCache[ip]
       /\ whoisIssued'[ip] = whoisIssued[ip]
       /\ ip \notin whoisPending']_vars

\* The overlay is open on an address whose lookup has failed: the empty
\* result is what is cached, no lookup is running and one was ever started.
C19_Witness ==
  \E ip \in IPs :
    /\ ip \in DOMAIN whoisCache
    /\ whoisCache[ip] = EmptyResult
    /\ detailOpen
    /\ detailEntry.Src = ip
    /\ whoisRunning[ip] = 0
    /\ whoisIssued[ip] = 1

(***************************************************************************)
(* Properties of the lookups (LookupSpec).                                 *)
(***************************************************************************)

\* C20: every lookup started has exactly one message to deliver until it is
\* delivered, which is while its address is pending; the delivery makes the
\* address resolved; and an address that is pending is later not pending,
\* unless the event loop has stopped running.
C20_OneMessagePerLookup ==
  \A ip \in IPs :
    /\ whoisRunning[ip] = IF ip \in whoisPending THEN 1 ELSE 0
    /\ whoisIssued[ip] - whoisRunning[ip] =
         IF ip \in DOMAIN whoisCache THEN 1 ELSE 0

C20_PendingEnds ==
  \A ip \in IPs :
    (ip \in whoisPending) ~>
      (\/ ip \notin whoisPending /\ ip \in DOMAIN whoisCache
       \/ running # "running")

C20_LookupDelivers ==
  /\ []C20_OneMessagePerLookup
  /\ C20_PendingEnds

\* A lookup was started, its result was delivered while the overlay was
\* closed again, and the event loop is running.
C20_Witness ==
  \E ip \in IPs :
    /\ whoisIssued[ip] = 1
    /\ whoisRunning[ip] = 0
    /\ whoisCache[ip] = FoundResult
    /\ ~detailOpen
    /\ running = "running"

(***************************************************************************)
(* Properties of the collection and of the counters (Spec).                *)
(***************************************************************************)

\* C21: across every step the value of all before the step is a prefix of its
\* value after it: a step leaves all as it was or appends one entry to it,
\* and no entry of all is removed, moved or changed by a filter, a cursor
\* movement, the search, the detail overlay or a whois result.
C21_AllAppendOnly ==
  [][/\ IsPrefix(all, all')
     /\ Len(all') <= Len(all) + 1]_vars

\* all holds different entries, some hidden by the filters that were set
\* since, the overlay is open and a whois result is cached.
C21_Witness ==
  /\ Len(all) = MaxAll
  /\ all[1] # all[2]
  /\ filters # NoFilters
  /\ Len(filtered) < Len(all)
  /\ detailOpen
  /\ DOMAIN whoisCache # {}

\* The counters of the entries of allv that are counted, by their key.
TallyOf(allv, KeyOf(_), Counted(_)) ==
  LET idx == {i \in 1..Len(allv) : Counted(allv[i])}
  IN [k \in {KeyOf(allv[i]) : i \in idx} |->
        Cardinality({i \in idx : KeyOf(allv[i]) = k})]

\* The counters as the sequence of the parsed lines alone determines them.
StatsOf(allv) ==
  [Total |-> Len(allv),
   ByAction |-> TallyOf(allv, LAMBDA e : Action(e), LAMBDA e : TRUE),
   ByProto |-> TallyOf(allv, LAMBDA e : e.Proto, LAMBDA e : TRUE),
   ByIface |-> TallyOf(allv, LAMBDA e : e.In, LAMBDA e : e.In # ""),
   BySrcIP |-> TallyOf(allv, LAMBDA e : e.Src, LAMBDA e : TRUE),
   ByDstPort |-> TallyOf(allv, LAMBDA e : Itoa(e.DstPort),
                         LAMBDA e : e.DstPort # 0)]

StatsMaps == {"ByAction", "ByProto", "ByIface", "BySrcIP", "ByDstPort"}

\* C22: the counters are those of the entries of all, whatever the filters,
\* the cursor, the tab, the search, the overlay and the whois maps are; no
\* step lowers Total or a per-key counter or removes a key; and the only step
\* that changes a counter is the receipt of a line that parses.
C22_CountersAreOfAll == stats = StatsOf(all)

C22_CounterStep ==
  /\ stats'.Total >= stats.Total
  /\ \A fld \in StatsMaps :
       \A k \in DOMAIN stats[fld] :
         /\ k \in DOMAIN stats'[fld]
         /\ stats'[fld][k] >= stats[fld][k]
  /\ stats' # stats =>
       \E line \in LogLines : ParseLine(line, LoopYear).ok /\ NewLine(line)

C22_CountersMonotone ==
  /\ []C22_CountersAreOfAll
  /\ [][C22_CounterStep]_vars

\* Lines were counted under two actions; since then filters hide entries,
\* the Filters tab is shown and a whois result is cached.
C22_Witness ==
  /\ stats.Total = MaxAll
  /\ Cardinality(DOMAIN stats.ByAction) = 2
  /\ Len(filtered) < Len(all)
  /\ tab = TabFilters
  /\ DOMAIN whoisCache # {}

\* m[k] of a Go map of counters: 0 for a key that is not in it.
Count(m, k) == IF k \in DOMAIN m THEN m[k] ELSE 0

\* The map after is the map before with the counter of k one higher.
OneMore(before, after, k) ==
  /\ DOMAIN after = DOMAIN before \cup {k}
  /\ after[k] = Count(before, k) + 1
  /\ \A j \in DOMAIN before : j # k => after[j] = before[j]

\* C23 as stated: the step that appends an entry raises Total and the counter
\* of the entry's key in each of the five maps by one.
C23_EveryCounterPlusOne ==
  [][Len(all') = Len(all) + 1 =>
       LET e == all'[Len(all')] IN
       /\ stats'.Total = stats.Total + 1
       /\ OneMore(stats.ByAction, stats'.ByAction, Action(e))
       /\ OneMore(stats.ByProto, stats'.ByProto, e.Proto)
       /\ OneMore(stats.ByIface, stats'.ByIface, e.In)
       /\ OneMore(stats.BySrcIP, stats'.BySrcIP, e.Src)
       /\ OneMore(stats.ByDstPort, stats'.ByDstPort, Itoa(e.DstPort))]_vars

\* C23, amended: the step that appends an entry raises by one Total and the
\* counter of the entry's action, protocol and source address, the counter
\* of its input interface when that is not empty and the counter of its
\* destination port when that is not 0; it leaves every other counter, and
\* the interface or port map of an entry without one, as it was; all this
\* whether or not the filters let the entry into the view.
C23_CountersPlusOne ==
  [][Len(all') = Len(all) + 1 =>
       LET e == all'[Len(all')] IN
       /\ stats'.Total = stats.Total + 1
       /\ OneMore(stats.ByAction, stats'.ByAction, Action(e))
       /\ OneMore(stats.ByProto, stats'.ByProto, e.Proto)
       /\ IF e.In # "" THEN OneMore(stats.ByIface, stats'.ByIface, e.In)
          ELSE stats'.ByIface = stats.ByIface
       /\ OneMore(stats.BySrcIP, stats'.BySrcIP, e.Src)
       /\ IF e.DstPort # 0
            THEN OneMore(stats.ByDstPort, stats'.ByDstPort, Itoa(e.DstPort))
          ELSE stats'.ByDstPort = stats.ByDstPort]_vars

\* Entries were counted that the filters kept out of the view, one of them
\* without input interface and destination port, one with both.
C23_Witness ==
  /\ filtered = <<>>
  /\ \E i, j \in 1..Len(all) :
       /\ all[i].In = "" /\ all[i].DstPort = 0
       /\ all[j].In # "" /\ all[j].DstPort # 0
  /\ stats.Total = Len(all)
  /\ Count(stats.ByIface, "") = 0

(***************************************************************************)
(* Properties of the keys (Spec).                                          *)
(***************************************************************************)

\* C24: once a TailerErrMsg has set the error, the error stays as it is set,
\* the view is the error message alone, and a key other than q and ctrl+c
\* changes nothing of the filters, the view of the entries, the cursor, the
\* tab, the search, the overlay and the pending lookups.
C24_FrozenAfterError ==
  [][err # "nil" =>
       /\ err' = err
       /\ View.screen = "fatal"
       /\ View'.screen = "fatal"
       /\ \A key \in Keys \ QuitKeys :
            handleKey(key) =>
              UNCHANGED <<filters, filtered, cursor, tab, searching,
                          searchInput, detailOpen, detailEntry, whoisPending,
                          whoisRunning>>]_vars

\* C25: while browsing the Logs tab, the key c leaves the action, protocol
\* and substring filters empty and the view equal to all.
C25_CClearsOnLogsTab ==
  (Browsing /\ tab = TabLogs) =>
    ENABLED (/\ handleKey("c")
             /\ filters' = NoFilters
             /\ filtered' = all)

\* C26: in every state of the running event loop (browsing, searching or
\* with the overlay open, on any tab, with or without the fatal error), q and
\* ctrl+c are handled by returning the quit command and closing the tailer's
\* done channel, and by changing nothing else of the model: the search text
\* in particular stays as it is.
C26_QuitFromEveryState ==
  running = "running" =>
    \A key \in QuitKeys :
      ENABLED (/\ handleKey(key)
               /\ quitCmds' = quitCmds + 1
               /\ done' = "closed"
               /\ running' = "running"
               /\ UNCHANGED <<all, filtered, cursor, tab, filters, searching,
                              searchInput, detailOpen, detailEntry, stats,
                              size, whoisCache, whoisPending, err>>)

(***************************************************************************)
(* Properties of the shutdown of the tailer (TailFairSpec).                *)
(***************************************************************************)

\* C27: once Stop has closed done, the worker returns in the end (or the
\* process has died), from the wait of the poll as from a send that finds
\* Lines full; and a worker that has returned stays so and sends nothing
\* more on Lines or on Errors.
C27_StopEndsWorker == (done = "closed") ~> (tpc = "exit" \/ ~Alive)

C27_ExitedStep ==
  tpc = "exit" =>
    /\ tpc' = "exit"
    /\ sent' = sent
    /\ errsSent' = errsSent
    /\ errsDropped' = errsDropped
    /\ Len(Lines') <= Len(Lines)
    /\ Len(Errors') <= Len(Errors)

C27_StoppedWorkerExits ==
  /\ C27_StopEndsWorker
  /\ [][C27_ExitedStep]_vars

\* The worker returned from a send that found Lines full, the line still
\* in its hand; the forwarder has taken nothing out of the channel.
C27_Witness ==
  /\ done = "closed"
  /\ tpc = "exit"
  /\ tline # NoLine
  /\ Len(Lines) = LinesCap
  /\ processed = <<>>
  /\ fpc = "select"
  /\ errsSent = 0

(***************************************************************************)
(* Properties of the parser (FnSpec).                                      *)
(***************************************************************************)

SansTimestamp(e) == [f \in DOMAIN e \ {"Timestamp"} |-> e[f]]

SameLetter(a, b) ==
  a = b \/ \E i \in 1..Len(Lowers) : {a, b} = {Lowers[i], Uppers[i]}

Occurs(p, w) ==
  \E at \in 1..(Len(p) - Len(w) + 1) :
    \A j \in 1..Len(w) : SameLetter(p[at + j - 1], w[j])

\* C29: Action() is a function of Prefix only, case-insensitive, with fixed
\* precedence: DROP if the prefix contains DROP or BLOCK; otherwise ACCEPT if
\* it contains ACCEPT; otherwise REJECT if it contains REJECT; otherwise the
\* prefix verbatim when non-empty and UNKNOWN when empty.
C29_ActionOfPrefix ==
  fnRes.fn = "Action" =>
    LET p == fnArgs.e.Prefix IN
    /\ (Occurs(p, sDROP) \/ Occurs(p, sBLOCK)) => fnRes.out = sDROP
    /\ (~Occurs(p, sDROP) /\ ~Occurs(p, sBLOCK) /\ Occurs(p, sACCEPT)) =>
         fnRes.out = sACCEPT
    /\ (/\ ~Occurs(p, sDROP) /\ ~Occurs(p, sBLOCK) /\ ~Occurs(p, sACCEPT)
        /\ Occurs(p, sREJECT)) => fnRes.out = sREJECT
    /\ (/\ ~Occurs(p, sDROP) /\ ~Occurs(p, sBLOCK) /\ ~Occurs(p, sACCEPT)
        /\ ~Occurs(p, sREJECT)) =>
         fnRes.out = IF p = sEmpty THEN sUNKNOWN ELSE p

\* Action was applied to an entry, itself a TCP packet to port 22, whose
\* prefix has "accept" in lower case before "Drop": the answer is DROP.
C29_Witness ==
  /\ fnRes.fn = "Action"
  /\ fnRes.out = sDROP
  /\ Occurs(fnArgs.e.Prefix, sACCEPT)
  /\ fnArgs.e.Prefix[1] = "a"
  /\ fnArgs.e.DstPort = 22

\* The line has a token k= with a value, and the value of the first of them.
HasTok(line, k) ==
  \E i \in 1..Len(line.toks) : line.toks[i].k = k /\ line.toks[i].v # sEmpty

ValTok(line, k) ==
  line.toks[CHOOSE i \in 1..Len(line.toks) :
              /\ line.toks[i].k = k /\ line.toks[i].v # sEmpty
              /\ \A j \in 1..(i - 1) :
                   ~(line.toks[j].k = k /\ line.toks[j].v # sEmpty)].v

\* The line has all that ParseLine asks for: the kernel: marker, a leading
\* timestamp of one of the two forms, and SRC=, DST= and PROTO=.
Mandatory(line) ==
  /\ line.marker
  /\ line.ts \in {TsSyslog, TsIso}
  /\ HasTok(line, "SRC") /\ HasTok(line, "DST") /\ HasTok(line, "PROTO")

\* C30: ParseLine fails for every line that lacks the kernel marker, a
\* leading timestamp, or any of SRC=, DST=, PROTO=, and succeeds when only
\* SPT=, DPT=, TTL= or LEN= are missing, the missing field being 0; on
\* success Src, Dst and DstPort equal the line's tokens and Raw is the line.
C30_ParseLineOutcome ==
  fnRes.fn = "ParseLine" =>
    LET line == fnArgs.line
        e == fnRes.out.entry
    IN /\ fnRes.out.ok = Mandatory(line)
       /\ fnRes.out.ok =>
            /\ ~HasTok(line, "SPT") => e.SrcPort = 0
            /\ ~HasTok(line, "DPT") => e.DstPort = 0
            /\ ~HasTok(line, "TTL") => e.TTL = 0
            /\ ~HasTok(line, "LEN") => e.Len = 0
            /\ e.Src = ValTok(line, "SRC")
            /\ e.Dst = ValTok(line, "DST")
            /\ HasTok(line, "DPT") => Itoa(e.DstPort) = ValTok(line, "DPT")
            /\ e.Raw = line

\* The same of the lines that name the source port first.
C30_ParseLineOutcomeSptFirst ==
  (fnArgs.fn = "ParseLine" /\ fnArgs.line # LineDptFirst) =>
    C30_ParseLineOutcome

\* No letter of s is a lower-case letter.
NoLowerCase(s) == \A i \in 1..Len(s) : \A j \in 1..Len(Lowers) : s[i] # Lowers[j]

\* The names the protocol-number table gives to 1, 4, 6 and 17.
TableName(p) ==
  CASE p = <<"1">> -> sICMP
    [] p = <<"4">> -> sIPv4
    [] p = <<"6">> -> sTCP
    [] p = <<"1", "7">> -> sUDP
    [] OTHER -> sEmpty

\* What normalizeProto owes to p whatever the case of a name: the table's
\* name for a number of the table, the token in upper case otherwise; the
\* parsed entry has it as Proto; 6, tcp and TCP match the TCP quick filter.
ProtoMapped ==
  LET p == fnArgs.p IN
  /\ TableName(p) # sEmpty => fnRes.out = TableName(p)
  /\ TableName(p) = sEmpty =>
       /\ Len(fnRes.out) = Len(p)
       /\ \A i \in 1..Len(p) : SameLetter(fnRes.out[i], p[i])
       /\ NoLowerCase(fnRes.out)
  /\ fnRes.parsed.ok /\ fnRes.parsed.entry.Proto = fnRes.out
  /\ p \in {<<"6">>, <<"t", "c", "p">>, sTCP} =>
       fnRes.out = sTCP /\ fnRes.tcp

\* C31 as stated: for every PROTO token the Proto field is a canonical
\* uppercase name, the table's name for a number of the table and the token
\* in upper case otherwise; PROTO=6, tcp and TCP yield TCP and match the TCP
\* quick filter.
C31_ProtoIsUppercaseName ==
  fnRes.fn = "normalizeProto" => ProtoMapped /\ NoLowerCase(fnRes.out)

\* C31, amended: the Proto field is the table's name, spelled as the table
\* spells it (IPv4 for 4), for a number of the table, and the token in upper
\* case otherwise; PROTO=6, tcp and TCP yield TCP and match the TCP quick
\* filter.
C31_ProtoIsTableNameOrUpper ==
  fnRes.fn = "normalizeProto" => ProtoMapped

\* normalizeProto was applied to 4 and gave the table's IPv4, while ipv4
\* gives IPV4.
C31_Witness ==
  /\ fnRes.fn = "normalizeProto"
  /\ fnArgs.p = <<"4">>
  /\ fnRes.out = sIPv4
  /\ fnRes.parsed.entry.Proto = sIPv4
  /\ ~fnRes.tcp
  /\ normalizeProto(<<"i", "p", "v", "4">>) = <<"I", "P", "V", "4">>

(***************************************************************************)
(* Properties of the classifier (FnSpec).                                  *)
(***************************************************************************)

\* The answer Categorize owes to its argument, from the precedence.
C32_Precedence ==
  fnRes.fn = "Categorize" =>
    LET ip == fnArgs.ip IN
    /\ fnRes.out \in {CatInternal, CatMulticast, CatExternal}
    /\ ip \notin ParsableIPs => fnRes.out = CatExternal
    /\ (ip \in ParsableIPs /\ ip \in MulticastIPs) => fnRes.out = CatMulticast
    /\ (ip \in ParsableIPs /\ ip \notin MulticastIPs /\ ip \in subnets) =>
         fnRes.out = CatInternal
    /\ (ip \in ParsableIPs /\ ip \notin MulticastIPs /\ ip \notin subnets) =>
         fnRes.out = CatExternal

\* C32: Categorize returns one of Internal, Multicast, External, Multicast
\* before Internal before External: a multicast address is Multicast even
\* inside a captured subnet, an unparseable string is External, and no step
\* modifies the snapshot of subnets.
C32_CategorizePrecedence ==
  []C32_Precedence /\ [][subnets' = subnets]_vars

\* Categorize was applied to the multicast address under a snapshot that
\* has it inside a subnet, and answered Multicast.
C32_Witness ==
  /\ fnRes.fn = "Categorize"
  /\ fnArgs.ip \in MulticastIPs
  /\ fnArgs.ip \in subnets
  /\ fnRes.out = CatMulticast

(***************************************************************************)
(* Properties of whois.Lookup (LookupSpec).                                *)
(***************************************************************************)

\* The runs of the tool that fail: not installed, non-zero exit, timeout.
FailedRuns == {run \in ExecRuns : run.err # "nil"}

\* C33: whois.Lookup returns the all-empty Result, never a partial one,
\* whenever the tool is missing, exits non-zero or exceeds the timeout; the
\* step that delivers the result of such a run for ip stores the empty
\* Result as any WhoisMsg is stored, ends the pending state of ip, and
\* leaves the fatal error state and the program as they are.
C33_FailedLookupStep ==
  \A ip \in IPs, run \in FailedRuns :
    (whoisRunning'[ip] < whoisRunning[ip] /\ whoisCache'[ip] = Lookup(run)) =>
      /\ whoisCache'[ip] = EmptyResult
      /\ ip \notin whoisPending'
      /\ err' = err
      /\ running' = running

C33_FailedLookupIsEmpty == [][C33_FailedLookupStep]_vars

\* The result of a failed run was delivered for an address: the cache has
\* the empty Result for it, it is not pending, and there is no fatal error.
C33_Witness ==
  \E ip \in IPs :
    /\ ip \in DOMAIN whoisCache
    /\ \E run \in FailedRuns : run.out # <<>> /\ whoisCache[ip] = Lookup(run)
    /\ whoisCache[ip] = EmptyResult
    /\ ip \notin whoisPending
    /\ whoisIssued[ip] > 0
    /\ err = "nil"

(***************************************************************************)
(* Properties of the cursor and of the overlays (Spec).                    *)
(***************************************************************************)

\* C34: in every reachable state the cursor is a valid position:
\* 0 <= cursor < len(filtered) when the filtered view is not empty and
\* cursor = 0 when it is; the cursor is never negative.
C34_CursorIsValid ==
  /\ Len(filtered) > 0 => (0 <= cursor /\ cursor < Len(filtered))
  /\ Len(filtered) = 0 => cursor = 0
  /\ cursor >= 0

\* The same, but for the empty view, where the cursor is 0 or -1.
C34_CursorIsValidOrBeforeEmpty ==
  /\ Len(filtered) > 0 => (0 <= cursor /\ cursor < Len(filtered))
  /\ Len(filtered) = 0 => cursor \in {0, 0 - 1}

\* The overlays exclude each other and belong to the Logs tab.
C35_Exclusive ==
  /\ ~(detailOpen /\ searching)
  /\ (detailOpen \/ searching) => tab = TabLogs
  /\ tab \in {TabLogs, TabStats, TabFilters}

\* A key handled while an overlay is open changes neither the tab nor the
\* quick filters, and with the detail overlay open a navigation key leaves
\* the cursor.
C35_OverlayKeyStep ==
  \A key \in Keys \ QuitKeys :
    ((detailOpen \/ searching) /\ handleKey(key)) =>
      /\ tab' = tab
      /\ filters'.Action = filters.Action
      /\ filters'.Proto = filters.Proto
      /\ (detailOpen /\ key \in MoveKeys) => cursor' = cursor

C36_DetailClose ==
  (running = "running" /\ detailOpen) =>
    /\ \A key \in {"esc", "enter"} :
         ENABLED (/\ handleKey(key)
                  /\ ~detailOpen'
                  /\ UNCHANGED <<all, filtered, filters, stats, tab,
                                 whoisCache, whoisPending>>
                  /\ Len(filtered) > 0 => cursor' = Len(filtered) - 1)
    /\ \A key \in Keys \ (QuitKeys \cup {"esc", "enter"}) :
         ENABLED (handleKey(key) /\ UNCHANGED uiVars)

\* The overlay is open on the first of two entries in view, where the
\* cursor was when it was opened: closing it moves the cursor to the second.
C36_Witness ==
  /\ running = "running"
  /\ detailOpen
  /\ Len(filtered) = 2
  /\ cursor = 0
  /\ detailEntry = filtered[1]
  /\ ENABLED (handleKey("esc") /\ ~detailOpen' /\ cursor' = 1)

(***************************************************************************)
(* Properties of the search input (Spec).                                  *)
(***************************************************************************)

\* C37: in every reachable state filters.IPSubstr is the text of the search
\* input, and the filtered view is the one that text gives: through every
\* edit, through closing the search with esc or enter, which keeps the text
\* as the filter, and through the clearing keys, which empty both.
C37_IPSubstrIsSearchText ==
  /\ filters.IPSubstr = searchInput.value
  /\ filtered =
       applyFiltersList(all, [filters EXCEPT !.IPSubstr = searchInput.value])

\* The search was closed with a character typed: the text stays in the
\* input and is the filter on addresses, with entries in view.
C37_Witness ==
  /\ ~searching
  /\ ~searchInput.focus
  /\ searchInput.value = <<"A">>
  /\ filters.IPSubstr = <<"A">>
  /\ Len(filtered) > 0

(***************************************************************************)
(* Properties of quitting (Spec).                                          *)
(***************************************************************************)

\* C38: the done channel is closed at most once: no quit key is handled by
\* calling Stop on the done channel that is already closed, and the program
\* never panics on a quit key.
C38_StopStep ==
  \A key \in QuitKeys :
    KeyQuit(key) => (done = "open" /\ running' # "panicked")

C38_DoneClosedOnce == [][C38_StopStep]_vars

(***************************************************************************)
(* Properties of the forwarder at the terminal error (TailSpec).           *)
(***************************************************************************)

\* The TailerErrMsg is the last message the event loop receives from the
\* tailer.
C39_ErrorIsLast ==
  \A i \in 1..Len(processed) :
    processed[i].kind = "err" => i = Len(processed)

\* C39: once the event loop has received the TailerErrMsg it has received,
\* before it, a NewLineMsg for every line the tailer placed on Lines, and it
\* receives no NewLineMsg after it.
C39_LinesBeforeError ==
  /\ C39_ErrorIsLast
  /\ (\E i \in 1..Len(processed) : processed[i].kind = "err") =>
       ProcessedLines = SentLines

====
